---- MODULE Spec2Model ----
(***************************************************************************)
(* TrackMyRide Map: the poll coordinator (throttling, backoff, snapshot    *)
(* publication) and the payload normalizer of                              *)
(* custom_components/trackmyride_map/coordinator.py.                       *)
(*                                                                         *)
(* Time is counted in milliseconds.  Text is a sequence of one-character   *)
(* strings, so that int() and float() are modelled as parsers.             *)
(***************************************************************************)
EXTENDS Integers, Sequences, FiniteSets, TLC

(***************************************************************************)
(* Bounds                                                                  *)
(***************************************************************************)
\* the wall clock stops advancing at MaxClock milliseconds
MaxClock == 6000

\* the number of "Throttled until" lines that are kept
MaxLogLines == 3

\* no more than MaxThrottleCount throttle responses are counted in a row
MaxThrottleCount == 7

\* the clock of the fleet with zones stops here (ms)
MaxZoneClock == 600000

\* the amounts (ms) by which the wall clock advances in one step
ClockSteps == {2000, 5000}

(***************************************************************************)
(* Program constants                                                       *)
(***************************************************************************)
THROTTLE_BACKOFF_INITIAL == 5

THROTTLE_BACKOFF_MAX == 300

HTTP_TOO_MANY_REQUESTS == 429

\* None for an Optional[datetime] / Optional[int] attribute
NoTime == -1

NoStatus == -1

\* the tasks that may run a refresh: the periodic timer and a manual caller
Callers == {"timer", "manual"}

(***************************************************************************)
(* Text and number conversion (Python int())                               *)
(***************************************************************************)
Digits == {"0", "1", "2", "3", "4", "5", "6", "7", "8", "9"}

DigitVal(c) ==
    CASE c = "0" -> 0 [] c = "1" -> 1 [] c = "2" -> 2 [] c = "3" -> 3
      [] c = "4" -> 4 [] c = "5" -> 5 [] c = "6" -> 6 [] c = "7" -> 7
      [] c = "8" -> 8 [] c = "9" -> 9 [] OTHER -> 0

RECURSIVE LStrip(_)
LStrip(s) == IF s # <<>> /\ Head(s) = " " THEN LStrip(Tail(s)) ELSE s

RECURSIVE RStrip(_)
RStrip(s) ==
    IF s # <<>> /\ s[Len(s)] = " " THEN RStrip(SubSeq(s, 1, Len(s) - 1)) ELSE s

Strip(s) == RStrip(LStrip(s))

RECURSIVE DigitsValue(_)
DigitsValue(ds) ==
    IF ds = <<>> THEN 0
    ELSE 10 * DigitsValue(SubSeq(ds, 1, Len(ds) - 1)) + DigitVal(ds[Len(ds)])

AllDigits(ds) == ds # <<>> /\ \A i \in 1..Len(ds) : ds[i] \in Digits

\* int(text): surrounding blanks are stripped, one optional sign, then digits
\* only; anything else is a ValueError (ok = FALSE).
PyIntOfText(s) ==
    LET Parsed(neg, body) ==
            IF AllDigits(body)
            THEN [ok |-> TRUE,
                  v |-> IF neg THEN 0 - DigitsValue(body) ELSE DigitsValue(body)]
            ELSE [ok |-> FALSE, v |-> 0]
        Signed(t) ==
            Parsed(t # <<>> /\ Head(t) = "-",
                   IF t # <<>> /\ Head(t) \in {"-", "+"} THEN Tail(t) ELSE t)
    IN  Signed(Strip(s))

Max(a, b) == IF a >= b THEN a ELSE b

Min(a, b) == IF a <= b THEN a ELSE b

RECURSIVE Pow2(_)
Pow2(n) == IF n <= 0 THEN 1 ELSE 2 * Pow2(n - 1)

(***************************************************************************)
(* Response headers of a throttle response                                 *)
(***************************************************************************)
\* a header value: plain text, or an HTTP-date (its text is not an integer
\* literal; parsedate_to_datetime gives the instant `date`, in ms)
Text(chars) == [kind |-> "text", chars |-> chars, date |-> 0]

HttpDate(ms) == [kind |-> "httpdate", chars |-> <<>>, date |-> ms]

Hdr(k, v) == [k |-> k, v |-> v]

LowerName(k) ==
    CASE k = "Retry-After" -> "retry-after"
      [] k = "RETRY-AFTER" -> "retry-after"
      [] k = "X-Ms-Retry-After-Ms" -> "x-ms-retry-after-ms"
      [] OTHER -> k

NoValue == [kind |-> "none", chars |-> <<>>, date |-> 0]

RECURSIVE FirstLower(_, _)
FirstLower(headers, lower) ==
    IF headers = <<>> THEN NoValue
    ELSE IF LowerName(Head(headers).k) = lower THEN Head(headers).v
    ELSE FirstLower(Tail(headers), lower)

\* a variant of _get_header that finds the exact name only
_get_header_exact(headers, name) ==
    IF \E i \in 1..Len(headers) : headers[i].k = name
    THEN headers[CHOOSE i \in 1..Len(headers) : headers[i].k = name].v
    ELSE NoValue

\* _get_header: the exact name first, then the first case-insensitive match
_get_header(headers, name) ==
    IF \E i \in 1..Len(headers) : headers[i].k = name
    THEN headers[CHOOSE i \in 1..Len(headers) : headers[i].k = name].v
    ELSE FirstLower(headers, LowerName(name))

\* truthiness of `if retry_after:` (None and "" are false)
Truthy(v) == v.kind = "httpdate" \/ (v.kind = "text" /\ v.chars # <<>>)

NoDelay == -1

\* the x-ms-retry-after-ms branch: int(ms) / 1000.0 seconds, floored at 0
MsHeaderDelay(headers) ==
    LET Delay(ms, parsed) ==
            IF Truthy(ms)
            THEN IF ms.kind = "text" /\ parsed.ok
                 THEN Max(0, parsed.v)
                 ELSE NoDelay
            ELSE NoDelay
        Header(ms) == Delay(ms, PyIntOfText(ms.chars))
    IN  Header(_get_header(headers, "x-ms-retry-after-ms"))

\* _retry_delay_from_headers: the delay in ms, or NoDelay for None
_retry_delay_from_headers(headers, now) ==
    LET Delay(ra, parsed) ==
            IF Truthy(ra)
            THEN IF ra.kind = "text" /\ parsed.ok
                 THEN Max(0, parsed.v) * 1000
                 ELSE IF ra.kind = "httpdate"
                      THEN Max(0, ra.date - now)
                      ELSE MsHeaderDelay(headers)
            ELSE MsHeaderDelay(headers)
        Header(ra) == Delay(ra, PyIntOfText(ra.chars))
    IN  Header(_get_header(headers, "Retry-After"))

\* the header sets a throttle response is answered with
ThrottleHeaders ==
    { <<>>,
      <<Hdr("Retry-After", Text(<<"0">>))>>,
      <<Hdr("Retry-After", Text(<<"2">>))>> }

(***************************************************************************)
(* Python values of a decoded JSON record                                  *)
(***************************************************************************)
\* a float is held in tenths (FloatScale), so 1.5 is PyFloat(15)
FloatScale == 10

PyNone == [t |-> "none", n |-> 0, s |-> <<>>]

PyInt(n) == [t |-> "int", n |-> n, s |-> <<>>]

PyFloat(tenths) == [t |-> "float", n |-> tenths, s |-> <<>>]

PyStr(chars) == [t |-> "str", n |-> 0, s |-> chars]

\* a JSON array of n elements (never convertible to a number)
PyList(n) == [t |-> "list", n |-> n, s |-> <<>>]

\* a JSON integer too large for a float (10**400, say): int() keeps it,
\* float() raises OverflowError
PyHuge == [t |-> "huge", n |-> 0, s |-> <<>>]

\* the outcome of a conversion that raised an exception nothing catches
PyRaised == [t |-> "raised", n |-> 0, s |-> <<>>]

\* a datetime, held as the seconds since the epoch of the instant it names
PyDatetime(epoch) == [t |-> "datetime", n |-> epoch, s |-> <<>>]

\* truthiness, as used by `a or b`
PyTruthy(v) ==
    CASE v.t = "none" -> FALSE
      [] v.t = "int" -> v.n # 0
      [] v.t = "float" -> v.n # 0
      [] v.t = "str" -> v.s # <<>>
      [] v.t = "list" -> v.n # 0
      [] OTHER -> TRUE

PyOr(a, b) == IF PyTruthy(a) THEN a ELSE b

\* position of the first "." in s, or 0
DotAt(s) ==
    IF \E i \in 1..Len(s) : s[i] = "."
    THEN CHOOSE i \in 1..Len(s) : s[i] = "." /\ \A j \in 1..(i - 1) : s[j] # "."
    ELSE 0

\* float(text): blanks stripped, optional sign, digits with an optional
\* fraction; the value is kept to one fractional digit.
PyFloatOfText(s) ==
    LET Parsed(neg, ip, fp) ==
            LET mag == DigitsValue(ip) * FloatScale
                           + (IF fp = <<>> THEN 0 ELSE DigitVal(fp[1]))
            IN  IF /\ \A i \in 1..Len(ip) : ip[i] \in Digits
                   /\ \A i \in 1..Len(fp) : fp[i] \in Digits
                   /\ (ip # <<>> \/ fp # <<>>)
                THEN [ok |-> TRUE, v |-> IF neg THEN 0 - mag ELSE mag]
                ELSE [ok |-> FALSE, v |-> 0]
        Split(neg, body, d) ==
            Parsed(neg,
                   IF d = 0 THEN body ELSE SubSeq(body, 1, d - 1),
                   IF d = 0 THEN <<>> ELSE SubSeq(body, d + 1, Len(body)))
        Body(neg, body) == Split(neg, body, DotAt(body))
        Signed(t) ==
            Body(t # <<>> /\ Head(t) = "-",
                 IF t # <<>> /\ Head(t) \in {"-", "+"} THEN Tail(t) ELSE t)
    IN  Signed(Strip(s))

\* truncation toward zero, as int(float) does
TruncDiv(a, b) == IF a >= 0 THEN a \div b ELSE 0 - ((0 - a) \div b)

\* _as_float: float(value), or the fallback on TypeError / ValueError; an
\* OverflowError is not caught
_as_float(value, fallback) ==
    LET Converted(parsed) ==
            IF parsed.ok THEN PyFloat(parsed.v) ELSE fallback
    IN  CASE value.t = "int" -> PyFloat(value.n * FloatScale)
          [] value.t = "float" -> value
          [] value.t = "huge" -> PyRaised
          [] value.t = "str" -> Converted(PyFloatOfText(value.s))
          [] OTHER -> fallback

\* _as_int: int(value), or the fallback on TypeError / ValueError
_as_int(value, fallback) ==
    LET Converted(parsed) ==
            IF parsed.ok THEN PyInt(parsed.v) ELSE fallback
    IN  CASE value.t = "int" -> value
          [] value.t = "huge" -> value
          [] value.t = "float" -> PyInt(TruncDiv(value.n, FloatScale))
          [] value.t = "str" -> Converted(PyIntOfText(value.s))
          [] OTHER -> fallback

DigitChar(d) ==
    CASE d = 0 -> "0" [] d = 1 -> "1" [] d = 2 -> "2" [] d = 3 -> "3"
      [] d = 4 -> "4" [] d = 5 -> "5" [] d = 6 -> "6" [] d = 7 -> "7"
      [] d = 8 -> "8" [] OTHER -> "9"

RECURSIVE NatText(_)
NatText(n) == IF n < 10 THEN <<DigitChar(n)>> ELSE NatText(n \div 10) \o <<DigitChar(n % 10)>>

\* str(value) for the values a unique_id takes
PyStrOf(v) ==
    CASE v.t = "str" -> v.s
      [] v.t = "int" -> IF v.n < 0 THEN <<"-">> \o NatText(0 - v.n) ELSE NatText(v.n)
      [] OTHER -> <<>>

(***************************************************************************)
(* Zones: the zone field of a record and the zones feature collection      *)
(***************************************************************************)
\* position of the first "," in s, or 0
CommaAt(s) ==
    IF \E i \in 1..Len(s) : s[i] = ","
    THEN CHOOSE i \in 1..Len(s) : s[i] = "," /\ \A j \in 1..(i - 1) : s[j] # ","
    ELSE 0

\* zone.split(","): the pieces between the commas, at least one
RECURSIVE SplitComma(_)
SplitComma(s) ==
    IF CommaAt(s) = 0 THEN <<s>>
    ELSE <<SubSeq(s, 1, CommaAt(s) - 1)>>
             \o SplitComma(SubSeq(s, CommaAt(s) + 1, Len(s)))

NonEmptyText(part) == part # <<>>

\* a variant of _parse_zone_ids that trims nothing
_parse_zone_ids_untrimmed(zone) ==
    IF zone = <<>> THEN <<>>
    ELSE SelectSeq(SplitComma(zone), NonEmptyText)

\* _parse_zone_ids: split on commas, strip each piece, drop the empty ones
_parse_zone_ids(zone) ==
    IF zone = <<>> THEN <<>>
    ELSE LET parts == SplitComma(zone)
         IN  SelectSeq([i \in 1..Len(parts) |-> Strip(parts[i])], NonEmptyText)

\* a mapping of zone ids to zone names without any entry
EmptyZoneMap == [z \in {} |-> <<>>]

\* a variant of _map_zone_names that leaves out the ids the mapping lacks
RECURSIVE _map_zone_names_known(_, _)
_map_zone_names_known(zone_ids, zone_map) ==
    IF zone_ids = <<>> THEN <<>>
    ELSE (IF Head(zone_ids) \in DOMAIN zone_map
          THEN <<zone_map[Head(zone_ids)]>> ELSE <<>>)
             \o _map_zone_names_known(Tail(zone_ids), zone_map)

\* _map_zone_names: zone_map.get(zone_id, zone_id) for each id
_map_zone_names(zone_ids, zone_map) ==
    [i \in 1..Len(zone_ids) |->
        IF zone_ids[i] \in DOMAIN zone_map THEN zone_map[zone_ids[i]]
        ELSE zone_ids[i]]

\* sep.join(parts)
RECURSIVE JoinWith(_, _)
JoinWith(parts, sep) ==
    IF parts = <<>> THEN <<>>
    ELSE IF Len(parts) = 1 THEN parts[1]
    ELSE parts[1] \o sep \o JoinWith(Tail(parts), sep)

CommaSpace == <<",", " ">>

\* ", ".join(zone_names) if zone_names else ""
ZoneStateOf(zone_names) == JoinWith(zone_names, CommaSpace)

\* a feature of the zones payload: a dict or not, its "id", whether its
\* "properties" is a dict (a missing one counts as {}), and the "name" there
Feature(isdict, id, props, name) ==
    [dict |-> isdict, id |-> id, props |-> props, name |-> name]

\* a zones payload: a dict or not, whether "features" is a list, the features
ZonesPayload(isdict, islist, features) ==
    [dict |-> isdict, list |-> islist, features |-> features]

\* the loop of _parse_zone_map
RECURSIVE ZoneMapOf(_, _)
ZoneMapOf(features, acc) ==
    IF features = <<>> THEN acc
    ELSE LET f == Head(features)
         IN  ZoneMapOf(Tail(features),
                 IF f.dict /\ PyTruthy(f.id) /\ f.props /\ f.name.t = "str"
                 THEN [k \in (DOMAIN acc) \cup {PyStrOf(f.id)} |->
                          IF k = PyStrOf(f.id) THEN f.name.s ELSE acc[k]]
                 ELSE acc)

\* _parse_zone_map: id -> name of the well-formed features
_parse_zone_map(payload) ==
    IF ~payload.dict \/ ~payload.list THEN EmptyZoneMap
    ELSE ZoneMapOf(payload.features, EmptyZoneMap)

(***************************************************************************)
(* util.format_comms_delta                                                 *)
(***************************************************************************)
\* _DURATION_UNITS, largest first
DurationUnits ==
    << [unit |-> "year", seconds |-> 365 * 24 * 3600],
       [unit |-> "month", seconds |-> 30 * 24 * 3600],
       [unit |-> "day", seconds |-> 24 * 3600],
       [unit |-> "hour", seconds |-> 3600],
       [unit |-> "minute", seconds |-> 60],
       [unit |-> "second", seconds |-> 1] >>

\* _pluralize: the unit, with an "s" unless the value is 1
_pluralize(unit, value) ==
    IF value = 1 THEN unit
    ELSE CASE unit = "year" -> "years" [] unit = "month" -> "months"
           [] unit = "day" -> "days" [] unit = "hour" -> "hours"
           [] unit = "minute" -> "minutes" [] OTHER -> "seconds"

\* one "<value> <unit>" component of the rendered text
Component(value, unit) == [n |-> value, unit |-> _pluralize(unit, value)]

\* the text format_comms_delta returns: its components, joined by " "
PyParts(parts) == [t |-> "parts", n |-> 0, s |-> parts]

\* _next_component over the units from index i on: the first unit that
\* yields a non-zero value, none (<<>>) when there is no such unit
RECURSIVE _next_component(_, _, _)
_next_component(remainder, i, primary_unit) ==
    IF i > Len(DurationUnits) THEN <<>>
    ELSE LET unit    == DurationUnits[i].unit
             seconds == DurationUnits[i].seconds
             months  == primary_unit = "year" /\ unit = "month" /\ remainder > 0
             value   == IF months /\ remainder \div seconds = 0 THEN 2
                        ELSE remainder \div seconds
         IN  IF remainder < seconds /\ ~months
             THEN _next_component(remainder, i + 1, primary_unit)
             ELSE IF value # 0 THEN <<Component(value, unit)>>
             ELSE _next_component(remainder, i + 1, primary_unit)

\* the loop of format_comms_delta over the units from index i on
RECURSIVE FormatAdjusted(_, _)
FormatAdjusted(adjusted, i) ==
    IF i > Len(DurationUnits) THEN <<Component(0, "second")>>
    ELSE IF adjusted < DurationUnits[i].seconds /\ DurationUnits[i].unit # "second"
         THEN FormatAdjusted(adjusted, i + 1)
         ELSE <<Component(adjusted \div DurationUnits[i].seconds,
                          DurationUnits[i].unit)>>
                  \o _next_component(adjusted % DurationUnits[i].seconds, i + 1,
                                     DurationUnits[i].unit)

\* int(float(raw_seconds)): ok = FALSE on TypeError / ValueError
SecondsOf(raw_seconds) ==
    LET Truncated(parsed) ==
            [ok |-> parsed.ok, v |-> TruncDiv(parsed.v, FloatScale)]
    IN  CASE raw_seconds.t = "int" -> [ok |-> TRUE, v |-> raw_seconds.n]
          [] raw_seconds.t = "float" ->
                [ok |-> TRUE, v |-> TruncDiv(raw_seconds.n, FloatScale)]
          [] raw_seconds.t = "str" -> Truncated(PyFloatOfText(raw_seconds.s))
          [] OTHER -> [ok |-> FALSE, v |-> 0]

\* format_comms_delta: None for what is no number, else the duration of
\* max(seconds - 1, 0); the OverflowError of float() is not caught
format_comms_delta(raw_seconds) ==
    LET Formatted(seconds) ==
            IF ~seconds.ok THEN PyNone
            ELSE PyParts(FormatAdjusted(Max(seconds.v - 1, 0), 1))
    IN  IF raw_seconds.t = "huge" THEN PyRaised
        ELSE Formatted(SecondsOf(raw_seconds))

(***************************************************************************)
(* Raw device records and the normalizer                                   *)
(***************************************************************************)
\* the keys of a raw record that hold one value each; the p_ keys are the
\* keys of the first telemetry point, aaData[0]
RawKeys ==
    {"unique_id", "name", "rego", "comms_delta", "volts", "odometer",
     "acc_counter", "external_power", "engine", "internal_battery", "zone",
     "last_data_at_epoch", "p_lat", "p_lng", "p_lon", "p_speed", "p_volts",
     "p_epoch"}

\* aaData is "missing", an "empty" list, a list whose first element is
\* "nondict", or a list whose first element is the "point" dict
AaKinds == {"missing", "empty", "nondict", "point"}

\* a record in which every key is absent
BlankRaw ==
    [dict |-> TRUE, aaData |-> "missing",
     unique_id |-> PyNone, name |-> PyNone, rego |-> PyNone,
     comms_delta |-> PyNone, volts |-> PyNone, odometer |-> PyNone,
     acc_counter |-> PyNone, external_power |-> PyNone, engine |-> PyNone,
     internal_battery |-> PyNone, zone |-> PyNone,
     last_data_at_epoch |-> PyNone, p_lat |-> PyNone, p_lng |-> PyNone,
     p_lon |-> PyNone, p_speed |-> PyNone, p_volts |-> PyNone,
     p_epoch |-> PyNone, lat |-> PyNone, lon |-> PyNone]

\* the telemetry fields of a normalized reading
TelemetryFields ==
    {"lat", "lon", "speed_kmh", "volts", "odometer", "acc_counter",
     "external_power", "engine", "internal_battery", "comms_delta",
     "timestamp_epoch"}

\* previous.get(unique_id, {}).get(field)
PrevGet(previous, id, field) ==
    IF id \in DOMAIN previous THEN previous[id][field] ELSE PyNone

\* a point key of the record, None unless aaData[0] is a dict
PointGet(raw, key) == IF raw.aaData = "point" THEN raw[key] ELSE PyNone

\* `if point:` is false for a missing point and for an empty dict
HasPoint(raw) ==
    /\ raw.aaData = "point"
    /\ \E k \in {"p_lat", "p_lng", "p_lon", "p_speed", "p_volts", "p_epoch"} :
          raw[k].t # "none"

TrackMyRidePrefix == <<"T", "r", "a", "c", "k", "M", "y", "R", "i", "d", "e", " ">>

\* str(raw_device.get("unique_id") or "").strip()
UniqueIdOf(raw) == Strip(PyStrOf(PyOr(raw.unique_id, PyStr(<<>>))))

\* max(comms_delta - 1, 0) if comms_delta is not None else None
CommsDeltaSeconds(comms_delta) ==
    IF comms_delta.t = "none" THEN PyNone
    ELSE [comms_delta EXCEPT !.n = Max(comms_delta.n - 1, 0)]

\* _as_datetime_from_epoch: the fallback for None and for what raises
\* TypeError, ValueError or OSError; the OverflowError of an epoch beyond
\* the range of time_t is not caught
_as_datetime_from_epoch(epoch_seconds, fallback) ==
    CASE epoch_seconds.t = "none" -> fallback
      [] epoch_seconds.t = "int" -> PyDatetime(epoch_seconds.n)
      [] epoch_seconds.t = "huge" -> PyRaised
      [] OTHER -> fallback

\* the zone field of a reading: the raw value if it is a string, else ""
ZoneOf(raw) == IF raw.zone.t = "str" THEN raw.zone.s ELSE <<>>

\* the reading _normalize_device builds for a record with a usable id
NormalizedEntry(raw, previous, id, zone_map) ==
    LET prev(f) == PrevGet(previous, id, f)
        Reading(volts0, comms, epoch, zone_ids, zone_names) ==
            [name |-> PyOr(raw.name, PyStr(TrackMyRidePrefix \o id)),
             rego |-> raw.rego,
             lat |-> IF HasPoint(raw) THEN _as_float(raw.p_lat, prev("lat"))
                     ELSE prev("lat"),
             lon |-> IF HasPoint(raw)
                     THEN _as_float(PyOr(raw.p_lng, raw.p_lon), prev("lon"))
                     ELSE prev("lon"),
             speed_kmh |-> IF HasPoint(raw)
                           THEN _as_float(raw.p_speed, prev("speed_kmh"))
                           ELSE prev("speed_kmh"),
             timestamp_epoch |-> epoch,
             timestamp_dt_utc |->
                 _as_datetime_from_epoch(epoch, prev("timestamp_dt_utc")),
             volts |-> IF HasPoint(raw) /\ volts0 # PyRaised
                       THEN _as_float(raw.p_volts, volts0)
                       ELSE volts0,
             comms_delta |-> comms,
             comms_delta_seconds |-> CommsDeltaSeconds(comms),
             last_comms |-> format_comms_delta(comms),
             odometer |-> _as_float(raw.odometer, prev("odometer")),
             acc_counter |-> _as_float(raw.acc_counter, prev("acc_counter")),
             external_power |->
                 _as_int(raw.external_power, prev("external_power")),
             engine |-> _as_int(raw.engine, prev("engine")),
             internal_battery |->
                 PyOr(raw.internal_battery, prev("internal_battery")),
             zone |-> PyStr(ZoneOf(raw)),
             zone_ids |-> zone_ids,
             zone_names |-> zone_names,
             zone_count |-> PyInt(Len(zone_ids)),
             zone_state |-> PyStr(ZoneStateOf(zone_names)),
             raw |-> raw]
        Zoned(volts0, comms, epoch, zone_ids) ==
            Reading(volts0, comms, epoch, zone_ids,
                    _map_zone_names(zone_ids, zone_map))
    IN  Zoned(_as_float(raw.volts, prev("volts")),
              _as_int(raw.comms_delta, prev("comms_delta")),
              _as_int(IF HasPoint(raw)
                      THEN PyOr(raw.p_epoch, raw.last_data_at_epoch)
                      ELSE raw.last_data_at_epoch,
                      prev("timestamp_epoch")),
              _parse_zone_ids(ZoneOf(raw)))

\* the fields of a reading that a conversion computes
ConvertedFields ==
    {"lat", "lon", "speed_kmh", "volts", "odometer", "acc_counter",
     "timestamp_dt_utc", "last_comms"}

\* an exception leaves _normalize_device: some conversion raised
NormalizeRaises(entry) == \E f \in ConvertedFields : entry[f] = PyRaised

\* a variant of _normalize_device that keeps a record without unique_id
_normalize_device_keeps_all(raw, previous, zone_map) ==
    LET Result(id, entry) ==
            [ok |-> TRUE, raised |-> NormalizeRaises(entry), id |-> id,
             entry |-> entry]
        WithId(id) == Result(id, NormalizedEntry(raw, previous, id, zone_map))
    IN  WithId(UniqueIdOf(raw))

\* _normalize_device: nothing (ok = FALSE) for a record without unique_id,
\* else the id and the reading, or the exception of a conversion (raised)
_normalize_device(raw, previous, zone_map) ==
    LET Result(id, entry) ==
            IF id = <<>>
            THEN [ok |-> FALSE, raised |-> FALSE, id |-> id, entry |-> entry]
            ELSE [ok |-> TRUE, raised |-> NormalizeRaises(entry), id |-> id,
                  entry |-> entry]
        WithId(id) == Result(id, NormalizedEntry(raw, previous, id, zone_map))
    IN  WithId(UniqueIdOf(raw))

\* a variant of the test of _coalesce_device that never holds
CoalesceKeepsNever(previous, id, current) == FALSE

\* the test of _coalesce_device: there is a previous reading and it equals
\* the current one
CoalesceKeeps(previous, id, current) ==
    id \in DOMAIN previous /\ previous[id] = current

\* _coalesce_device: the previous reading when it equals the current one
_coalesce_device(previous, id, current) ==
    IF CoalesceKeeps(previous, id, current) THEN previous[id] ELSE current

EmptyMap == [id \in {} |-> BlankRaw]

\* a mapping with one more key (a later record of the same id wins)
MapPut(m, id, e) ==
    [k \in (DOMAIN m) \cup {id} |-> IF k = id THEN e ELSE m[k]]

\* a payload: a dict of records ("direct"), the same under a "data" key
\* ("wrapped"), or a body that is not a dict at all ("list")
Payload(shape, items) == [shape |-> shape, items |-> items]

\* _extract_devices: the dict-valued items of a dict payload
RECURSIVE DictItems(_)
DictItems(items) ==
    IF items = <<>> THEN <<>>
    ELSE IF Head(items).dict THEN <<Head(items)>> \o DictItems(Tail(items))
    ELSE DictItems(Tail(items))

\* a variant that does not look under the "data" key
_extract_devices_direct(payload) ==
    IF payload.shape = "direct" THEN DictItems(payload.items) ELSE <<>>

_extract_devices(payload) ==
    IF payload.shape \in {"direct", "wrapped"} THEN DictItems(payload.items)
    ELSE <<>>

\* the loop of _async_update_data that fills `normalized`: the mapping, or
\* the exception (raised) of the first record whose normalization raises
RECURSIVE NormalizeAll(_, _, _, _)
NormalizeAll(devices, previous, zone_map, acc) ==
    LET Rest(r) ==
            IF r.ok /\ r.raised THEN [raised |-> TRUE, map |-> acc]
            ELSE NormalizeAll(Tail(devices), previous, zone_map,
                     IF r.ok
                     THEN MapPut(acc, r.id,
                                 _coalesce_device(previous, r.id, r.entry))
                     ELSE acc)
    IN  IF devices = <<>> THEN [raised |-> FALSE, map |-> acc]
        ELSE Rest(_normalize_device(Head(devices), previous, zone_map))

\* needs_zone_lookup (lines 113-116): some record has a zone string that is
\* not blank
needs_zone_lookup(devices) ==
    \E i \in 1..Len(devices) :
        devices[i].zone.t = "str" /\ Strip(devices[i].zone.s) # <<>>

(***************************************************************************)
(* Inputs: the payloads the devices endpoint answers with                  *)
(***************************************************************************)
IdA == <<"A">>

\* a record of vehicle A with a full telemetry point
RawFullA ==
    [BlankRaw EXCEPT !.unique_id = PyStr(IdA), !.name = PyStr(<<"v", "a", "n">>),
                     !.aaData = "point", !.p_lat = PyFloat(15),
                     !.p_lng = PyStr(<<"2", ".", "5">>), !.p_speed = PyInt(40),
                     !.p_epoch = PyInt(100), !.volts = PyStr(<<"1", "2">>),
                     !.internal_battery = PyInt(80), !.engine = PyInt(1),
                     !.external_power = PyInt(1), !.odometer = PyInt(9),
                     !.acc_counter = PyInt(3), !.comms_delta = PyInt(61)]

\* vehicle A again, nothing but its id
RawBareA == [BlankRaw EXCEPT !.unique_id = PyStr(<<" ", "A">>)]

\* vehicle A at longitude 0 with an empty battery and the engine off
RawZeroA ==
    [BlankRaw EXCEPT !.unique_id = PyStr(IdA), !.aaData = "point",
                     !.p_lat = PyInt(3), !.p_lng = PyInt(0),
                     !.internal_battery = PyInt(0), !.engine = PyInt(0)]

\* a record without any identifier
RawNoId == [BlankRaw EXCEPT !.name = PyStr(<<"v", "a", "n">>)]

Payloads ==
    { Payload("wrapped", <<RawFullA>>),
      Payload("wrapped", <<RawBareA, RawNoId>>),
      Payload("direct", <<RawZeroA>>) }

\* the failures of the devices call that end the cycle with UpdateFailed
FailureKinds == {"endpoint", "auth", "connection", "unexpected"}

(***************************************************************************)
(* Inputs of a fleet whose records name zones                              *)
(***************************************************************************)
\* _zones_cache_ttl (line 61), in ms
ZONES_CACHE_TTL == 600000

IdC == <<"C">>

Z1 == <<"Z", "1">>

Z9 == <<"Z", "9">>

Depot == <<"D", "e", "p", "o", "t">>

Mine == <<"M", "i", "n", "e">>

\* vehicle A inside the zones Z1 and Z9, with a position
RawZonedA ==
    [BlankRaw EXCEPT !.unique_id = PyStr(IdA), !.aaData = "point",
                     !.p_lat = PyFloat(15), !.comms_delta = PyInt(61),
                     !.zone = PyStr(Z1 \o <<",", " ">> \o Z9 \o <<",">>)]

\* vehicle C with a blank zone field
RawBlankZoneC ==
    [BlankRaw EXCEPT !.unique_id = PyStr(IdC), !.zone = PyStr(<<" ">>)]

\* vehicle C with a last_data_at_epoch beyond the range of time_t
RawHugeC ==
    [BlankRaw EXCEPT !.unique_id = PyStr(IdC), !.last_data_at_epoch = PyHuge]

\* records whose unique_id is blank, and empty
RawBlankId == [BlankRaw EXCEPT !.unique_id = PyStr(<<" ", " ">>)]

RawEmptyId == [BlankRaw EXCEPT !.unique_id = PyStr(<<>>), !.volts = PyInt(12)]

FleetPayloads ==
    { Payload("wrapped", <<RawZonedA>>),
      Payload("wrapped", <<RawNoId, RawBlankId, RawBareA, RawEmptyId>>),
      Payload("direct", <<RawBlankZoneC>>),
      Payload("direct", <<RawFullA, RawHugeC>>) }

\* what the zones call of a cycle ends in: an exception, or a payload
ZonesAnswer(raised, payload) == [raised |-> raised, payload |-> payload]

ZonesAnswers ==
    { ZonesAnswer(TRUE, ZonesPayload(FALSE, FALSE, <<>>)),
      ZonesAnswer(FALSE, ZonesPayload(TRUE, FALSE, <<>>)),
      ZonesAnswer(FALSE, ZonesPayload(TRUE, TRUE, <<>>)),
      ZonesAnswer(FALSE, ZonesPayload(TRUE, TRUE,
          <<Feature(TRUE, PyStr(Z1), TRUE, PyStr(Depot)),
            Feature(TRUE, PyStr(Z9), TRUE, PyInt(9))>>)),
      ZonesAnswer(FALSE, ZonesPayload(TRUE, TRUE,
          <<Feature(TRUE, PyStr(Z9), TRUE, PyStr(Mine)),
            Feature(FALSE, PyStr(Z1), TRUE, PyStr(Depot))>>)) }

\* the clock of the fleet advances by half the TTL, up to MaxZoneClock
ZoneClockSteps == {ZONES_CACHE_TTL \div 2}

(***************************************************************************)
(* The upstream client: TrackMyRideClient._async_request (api.py)          *)
(***************************************************************************)
\* the error value of a JSON body that reports an error, as the upstream
\* words it
RateLimited == "Rate limited"

InvalidKey == "Invalid Key supplied"

\* str.lower() of the messages
LowerMessage(m) ==
    CASE m = RateLimited -> "rate limited"
      [] m = InvalidKey -> "invalid key supplied"
      [] OTHER -> m

\* `"invalid key" in message or "invalid api" in message`
MentionsInvalidKey(m) == m \in {"invalid key supplied", "invalid api"}

\* a response body: text that is JSON or not; a JSON body is a dict of
\* records ("direct"), the same under "data" ("wrapped"), or a list, and a
\* dict may hold an error message
Body(json, payload, message) ==
    [json |-> json, payload |-> payload, message |-> message]

\* a value of a dict that is no dict itself (the message of an error)
MessageItem == [BlankRaw EXCEPT !.dict = FALSE]

\* what the network does with a request: a response arrives ("ok"), aiohttp
\* raises a ClientError, the timeout of 15 s expires, or something else
\* is raised
NetOutcomes == {"ok", "client_error", "timeout", "other"}

Response(net, status, headers, body) ==
    [net |-> net, status |-> status, headers |-> headers, body |-> body]

ClientStatuses == {200, 401, 403, 404, 429, 500, 503}

ClientHeaders == {<<>>, <<Hdr("Retry-After", Text(<<"2">>))>>}

ClientBodies ==
    { Body(FALSE, Payload("list", <<>>), ""),
      Body(TRUE, Payload("direct", <<RawFullA>>), ""),
      Body(TRUE, Payload("wrapped", <<RawBareA>>), ""),
      Body(TRUE, Payload("direct", <<MessageItem>>), RateLimited),
      Body(TRUE, Payload("direct", <<MessageItem>>), InvalidKey),
      Body(TRUE, Payload("list", <<>>), "") }

NoBody == Body(FALSE, Payload("list", <<>>), "")

ClientResponses ==
    {Response("ok", s, h, b) :
        s \in ClientStatuses, h \in ClientHeaders, b \in ClientBodies}
    \cup {Response(n, 0, <<>>, NoBody) : n \in NetOutcomes \ {"ok"}}

\* what a call of _async_request ends in: the payload it returns, or the
\* exception it raises
Result(kind, payload) ==
    [kind |-> kind, payload |-> payload, status |-> 0, headers |-> <<>>]

\* _has_invalid_key_message
_has_invalid_key_message(body) == MentionsInvalidKey(LowerMessage(body.message))

\* line 162: a payload that is no dict is wrapped under "data"
Returned(payload) ==
    IF payload.shape \in {"direct", "wrapped"} THEN payload
    ELSE Payload("list", payload.items)

\* a variant that looks for the invalid-key message before it tests the
\* status
_async_request_body_first(resp) ==
    IF resp.net # "ok" THEN Result("connection", NoBody.payload)
    ELSE IF resp.body.json
            /\ resp.body.payload.shape \in {"direct", "wrapped"}
            /\ _has_invalid_key_message(resp.body)
    THEN Result("auth", NoBody.payload)
    ELSE IF resp.status = 404 THEN Result("endpoint", NoBody.payload)
    ELSE IF resp.status \in {401, 403} THEN Result("auth", NoBody.payload)
    ELSE IF resp.status >= 500 THEN Result("connection", NoBody.payload)
    ELSE IF ~resp.body.json THEN Result("connection", NoBody.payload)
    ELSE Result("payload", Returned(resp.body.payload))

\* a variant of the handlers of lines 150-157 that lets an exception that is
\* neither of the client's own nor a ClientError escape as it is
_async_request_reraises(resp) ==
    IF resp.net = "client_error" THEN Result("connection", NoBody.payload)
    ELSE IF resp.net \in {"timeout", "other"}
    THEN Result("unexpected", NoBody.payload)
    ELSE IF resp.status = 404 THEN Result("endpoint", NoBody.payload)
    ELSE IF resp.status \in {401, 403} THEN Result("auth", NoBody.payload)
    ELSE IF resp.status >= 500 THEN Result("connection", NoBody.payload)
    ELSE IF ~resp.body.json THEN Result("unexpected", NoBody.payload)
    ELSE IF resp.body.payload.shape \in {"direct", "wrapped"}
            /\ _has_invalid_key_message(resp.body)
    THEN Result("auth", NoBody.payload)
    ELSE Result("payload", Returned(resp.body.payload))

\* _async_request (lines 126-162): the status is tested for 404, 401/403
\* and 5xx, the body is parsed as JSON, every exception that is neither of
\* the client's own becomes a ClientError, a dict that reports invalid keys
\* is an authentication error, and anything else is returned
_async_request(resp) ==
    IF resp.net # "ok" THEN Result("connection", NoBody.payload)
    ELSE IF resp.status = 404 THEN Result("endpoint", NoBody.payload)
    ELSE IF resp.status \in {401, 403} THEN Result("auth", NoBody.payload)
    ELSE IF resp.status >= 500 THEN Result("connection", NoBody.payload)
    ELSE IF ~resp.body.json THEN Result("connection", NoBody.payload)
    ELSE IF resp.body.payload.shape \in {"direct", "wrapped"}
            /\ _has_invalid_key_message(resp.body)
    THEN Result("auth", NoBody.payload)
    ELSE Result("payload", Returned(resp.body.payload))

\* _redact (lines 25-30)
_redact(value) ==
    IF value = <<>> THEN <<>>
    ELSE IF Len(value) <= 4 THEN <<"*", "*", "*">>
    ELSE SubSeq(value, 1, 2) \o <<"*", "*", "*">>
             \o SubSeq(value, Len(value) - 1, Len(value))

\* lines 113-124: the query as the debug line of the request shows it
redacted_query(module, action, api_key, user_key) ==
    [module |-> module, action |-> action, json |-> 1,
     api_key |-> _redact(api_key), user_key |-> _redact(user_key)]

\* a client constructed with empty credentials
NoKeys == [api_key |-> <<>>, user_key |-> <<>>]

LogIdle ==
    [done |-> FALSE, line |-> redacted_query("devices", "get", <<>>, <<>>)]

HintIdle == [done |-> FALSE, delay |-> NoDelay, pause |-> NoDelay]

\* main.py 36-45: a TrackerService after construction.  `task` is where the
\* poll-loop task stands ("none" while _task is None), must_cancel whether
\* its cancellation was requested and not yet delivered, stopping whether
\* stop() awaits it, connected whether the client holds a connection.  The
\* rest is history: the tasks created, the calls of poll_once begun, the
\* calls of start() and the calls of stop() that completed, where the loop
\* stood when it was cancelled, whether start() was called after a stop()
\* had completed (again) and whether a poll_once began after one (late)
NoService ==
    [task |-> "none", must_cancel |-> FALSE, stopping |-> FALSE,
     connected |-> FALSE, tasks |-> 0, polls |-> 0, starts |-> 0,
     stops |-> 0, cancelled_at |-> "none", again |-> FALSE, late |-> FALSE]

\* line 57: no identity field is configured (None)
NoField == ""

\* no VehiclePosition, and one: the minute it was recorded at and whether
\* its datetime carries a time zone
NoPosition == [none |-> TRUE, recorded_at |-> 0, aware |-> FALSE]

Position(at, aware) == [none |-> FALSE, recorded_at |-> at, aware |-> aware]

\* state.py 12-17: a VehicleState after construction (last_error is whether
\* a message is held), with the minute that datetime.utcnow() reads.  The
\* rest is history: the position and the retention of the last call of
\* add_position, the minute of that call, whether it raised, and two bits
\* that flip with each call of add_position and of add_error
NoVehicle ==
    [last_position |-> NoPosition, history |-> <<>>, last_error |-> FALSE,
     updated_at |-> NoTime, utcnow |-> 0, added |-> NoPosition,
     retention |-> 0, added_at |-> NoTime, raised |-> FALSE,
     flip_position |-> FALSE, flip_error |-> FALSE]

\* what an entity compares and writes: nothing yet, or a value
NoWrite == [none |-> TRUE, val |-> PyNone, attrs |-> <<>>]

Written(val, attrs) == [none |-> FALSE, val |-> val, attrs |-> attrs]

\* the entities of a vehicle before the first update: the tracker's
\* _last_snapshot is None (device_tracker.py 75) and nothing was written
NoUpdates ==
    [updates |-> 0, tracker_last |-> NoWrite, tracker_wrote |-> FALSE,
     tracker_written |-> NoWrite, sensor_wrote |-> FALSE,
     sensor_raised |-> FALSE, sensor_written |-> NoWrite]

\* no request has been answered yet
NoRequest ==
    [asked |-> FALSE, resp |-> Response("other", 0, <<>>, NoBody),
     result |-> Result("connection", NoBody.payload)]

(***************************************************************************)
(* State                                                                   *)
(***************************************************************************)
VARIABLES
    clock,                  \* the wall clock (ms)
    data,                   \* coordinator.data: None or the snapshot
    next_allowed_at,        \* _next_allowed_at
    throttle_count,         \* _throttle_count
    throttle_logged_until,  \* _throttle_logged_until
    last_http_status,       \* _last_http_status
    pc,                     \* where each refresh task stands
    now_,                   \* the `now` each running cycle read at its start
    last,                   \* what the most recently finished cycle did
    n_raw,                  \* normalizer harness: the raw record
    n_prev,                 \* normalizer harness: the previous snapshot
    n_out,                  \* normalizer harness: the result, once computed
    zone_map,               \* _zone_map
    last_zones_fetch,       \* _last_zones_fetch
    held,                   \* the locals of each cycle that awaits the zones
    zones_called_at,        \* when the zones endpoint was last called
    known,                  \* the fields that some snapshot held a value of
    z_in,                   \* zone harness: the zone text
    z_out,                  \* zone harness: _parse_zone_ids of it, once computed
    f_in,                   \* duration harness: raw seconds
    f_out,                  \* duration harness: format_comms_delta of it
    rq,                     \* the last HTTP response and what _async_request
                            \* made of it
    k_in,                   \* redaction harness: the credentials of the client
    k_out,                  \* redaction harness: the request line it logged
    ent,                    \* the entities of vehicle A: what each last wrote
    h_in,                   \* hint harness: the headers of a response and `now`
    h_out,                  \* hint harness: the delay read from them
    log_lines,              \* the times named by the "Throttled until" lines logged
    svc,                    \* add-on: the TrackerService and its poll-loop task
    veh,                    \* add-on: a VehicleState and the clock it reads
    identity_field          \* _identity_field, the configured identity field

vars ==
    <<clock, data, next_allowed_at, throttle_count, throttle_logged_until,
      last_http_status, pc, now_, last, n_raw, n_prev, n_out, zone_map,
      last_zones_fetch, held, zones_called_at, known, z_in, z_out, f_in,
      f_out, rq, k_in, k_out, ent, h_in, h_out,
      log_lines, svc, veh, identity_field>>

zoneVars == <<zone_map, last_zones_fetch, held, zones_called_at>>

coordVars ==
    <<clock, data, next_allowed_at, throttle_count, throttle_logged_until,
      last_http_status, pc, now_, last, zoneVars, known>>

normVars == <<n_raw, n_prev, n_out>>

textVars == <<z_in, z_out, f_in, f_out>>

clientVars == <<rq>>

redactVars == <<k_in, k_out>>

entityVars == <<ent>>

hintVars == <<h_in, h_out>>

logVars == <<log_lines>>

serviceVars == <<svc>>

vehicleVars == <<veh>>

configVars == <<identity_field>>

appVars == <<logVars, serviceVars, vehicleVars, configVars>>

auxVars == <<clientVars, redactVars, entityVars, hintVars, appVars>>

NoneData == [none |-> TRUE, map |-> EmptyMap]

Snapshot(m) == [none |-> FALSE, map |-> m]

\* `self.data or {}`
DataOrEmpty(d) == IF d.none THEN EmptyMap ELSE d.map

\* a variant of the test of line 72 that also skips at next_allowed_at itself
ThrottledInclusive(now) == next_allowed_at # NoTime /\ now <= next_allowed_at

\* the test of line 72
Throttled(now) == next_allowed_at # NoTime /\ now < next_allowed_at

\* the property throttled_until (lines 36-39): None, or the ISO text of
\* _next_allowed_at, which is told here by the instant it denotes
throttled_until ==
    IF next_allowed_at # NoTime
    THEN [none |-> FALSE, iso |-> next_allowed_at]
    ELSE [none |-> TRUE, iso |-> NoTime]

\* a variant of the fallback that doubles without the ceiling
BackoffDelayUncapped(count) ==
    1000 * THROTTLE_BACKOFF_INITIAL * Pow2(count - 1)

\* the fallback of lines 89-92, in ms
BackoffDelay(count) ==
    1000 * Min(THROTTLE_BACKOFF_INITIAL * Pow2(count - 1), THROTTLE_BACKOFF_MAX)

\* the delay of lines 87-92
ThrottleDelay(headers, now, count) ==
    IF _retry_delay_from_headers(headers, now) # NoDelay
    THEN _retry_delay_from_headers(headers, now)
    ELSE BackoffDelay(count)

\* what the devices call of a cycle can end in: no call at all ("skip"), a
\* throttle error, one of the failures, or a payload
AnswerKinds == {"skip", "throttle", "payload"} \cup FailureKinds

\* a cycle that called the zones endpoint records the answer it got
NoZones ==
    [called |-> FALSE,
     answer |-> ZonesAnswer(FALSE, ZonesPayload(FALSE, FALSE, <<>>))]

\* the record of the last finished cycle: how the upstream answered it, the
\* headers of a throttle response, whether the cycle raised UpdateFailed,
\* the value of _throttle_count when the answer arrived, the number of
\* throttle responses since the last payload, a bit that flips whenever a
\* cycle finishes, the ids whose published reading is the very object that
\* `previous` held, and how the zones call of the cycle ended, if it made one
Finished(kind, headers, raised) ==
    [kind |-> kind, headers |-> headers, raised |-> raised,
     count0 |-> throttle_count,
     streak |-> IF kind = "throttle" THEN last.streak + 1
                ELSE IF kind = "payload" THEN 0 ELSE last.streak,
     flip |-> ~last.flip, kept |-> {}, zones |-> NoZones]

NoCycle ==
    [kind |-> "none", headers |-> <<>>, raised |-> FALSE, count0 |-> 0,
     streak |-> 0, flip |-> FALSE, kept |-> {}, zones |-> NoZones]

NormIdle ==
    [done |-> FALSE, res |-> _normalize_device(BlankRaw, EmptyMap, EmptyZoneMap)]

\* the locals of a cycle that awaits no zones call
NoHeld ==
    [payload |-> Payload("list", <<>>), previous |-> EmptyMap,
     znow |-> NoTime]

ZoneIdle == [done |-> FALSE, ids |-> <<>>]

FormatIdle == [done |-> FALSE, res |-> PyNone]

Init ==
    /\ clock = 0
    /\ data = NoneData
    /\ next_allowed_at = NoTime
    /\ throttle_count = 0
    /\ throttle_logged_until = NoTime
    /\ last_http_status = NoStatus
    /\ pc = [c \in Callers |-> "idle"]
    /\ now_ = [c \in Callers |-> NoTime]
    /\ last = NoCycle
    /\ n_raw = BlankRaw
    /\ n_prev = EmptyMap
    /\ n_out = NormIdle
    /\ zone_map = EmptyZoneMap
    /\ last_zones_fetch = NoTime
    /\ held = [c \in Callers |-> NoHeld]
    /\ zones_called_at = NoTime
    /\ known = {}
    /\ z_in = <<>>
    /\ z_out = ZoneIdle
    /\ f_in = PyNone
    /\ f_out = FormatIdle
    /\ rq = NoRequest
    /\ k_in = NoKeys
    /\ k_out = LogIdle
    /\ ent = NoUpdates
    /\ h_in = [headers |-> <<>>, now |-> 0]
    /\ h_out = HintIdle
    /\ log_lines = <<>>
    /\ svc = NoService
    /\ veh = NoVehicle
    /\ identity_field = NoField

(***************************************************************************)
(* The update cycle, _async_update_data, run by a refresh task that        *)
(* publishes what the cycle returns                                        *)
(***************************************************************************)
\* lines 71-78: the cycle is skipped while throttled; what it writes to the
\* coordinator
SkipCycleReturns(c) ==
    /\ pc[c] = "idle"
    /\ Throttled(clock)
    /\ throttle_logged_until' = next_allowed_at
    /\ data' = Snapshot(DataOrEmpty(data))
    /\ last' = Finished("skip", <<>>, FALSE)
    /\ UNCHANGED <<clock, next_allowed_at, throttle_count, last_http_status,
                   pc, now_, normVars, textVars, clientVars, redactVars,
                   entityVars, hintVars, serviceVars, vehicleVars, configVars,
                   zoneVars, known>>

\* lines 73-77: the skipped cycle logs "Throttled until" unless
\* _throttle_logged_until is the current _next_allowed_at
LogsThrottle == throttle_logged_until # next_allowed_at

\* the skipped cycle, with the lines it logs left out
SkipCycle(c) == SkipCycleReturns(c) /\ UNCHANGED logVars

\* the skipped cycle, with the lines it logs
SkipCycleLogs(c) ==
    /\ LogsThrottle => Len(log_lines) < MaxLogLines
    /\ SkipCycleReturns(c)
    /\ log_lines' = IF LogsThrottle THEN Append(log_lines, next_allowed_at)
                    ELSE log_lines

\* lines 71-83: otherwise the devices request is issued and awaited
BeginFetch(c) ==
    /\ pc[c] = "idle"
    /\ ~Throttled(clock)
    /\ pc' = [pc EXCEPT ![c] = "fetching"]
    /\ now_' = [now_ EXCEPT ![c] = clock]
    /\ UNCHANGED <<clock, data, next_allowed_at, throttle_count,
                   throttle_logged_until, last_http_status, last, normVars, textVars, auxVars, zoneVars, known>>

\* a variant of the throttle branch that leaves the counter alone
RespondThrottleKeepsCount(c, headers) ==
    /\ pc[c] = "fetching"
    /\ throttle_count < MaxThrottleCount
    /\ last_http_status' = HTTP_TOO_MANY_REQUESTS
    /\ next_allowed_at' =
           now_[c] + ThrottleDelay(headers, now_[c], throttle_count + 1)
    /\ throttle_logged_until' = NoTime
    /\ data' = Snapshot(DataOrEmpty(data))
    /\ pc' = [pc EXCEPT ![c] = "idle"]
    /\ now_' = [now_ EXCEPT ![c] = NoTime]
    /\ last' = Finished("throttle", headers, FALSE)
    /\ UNCHANGED <<clock, throttle_count, normVars, textVars, auxVars,
                   zoneVars, known>>

\* a variant of the throttle branch that returns an empty mapping
RespondThrottleBlanks(c, headers) ==
    /\ pc[c] = "fetching"
    /\ throttle_count < MaxThrottleCount
    /\ last_http_status' = HTTP_TOO_MANY_REQUESTS
    /\ throttle_count' = throttle_count + 1
    /\ next_allowed_at' =
           now_[c] + ThrottleDelay(headers, now_[c], throttle_count + 1)
    /\ throttle_logged_until' = NoTime
    /\ data' = Snapshot(EmptyMap)
    /\ pc' = [pc EXCEPT ![c] = "idle"]
    /\ now_' = [now_ EXCEPT ![c] = NoTime]
    /\ last' = Finished("throttle", headers, FALSE)
    /\ UNCHANGED <<clock, normVars, textVars, auxVars, zoneVars, known>>

\* lines 84-95: the request is answered with a throttle error
RespondThrottle(c, headers) ==
    /\ pc[c] = "fetching"
    /\ throttle_count < MaxThrottleCount
    /\ last_http_status' = HTTP_TOO_MANY_REQUESTS
    /\ throttle_count' = throttle_count + 1
    /\ next_allowed_at' =
           now_[c] + ThrottleDelay(headers, now_[c], throttle_count + 1)
    /\ throttle_logged_until' = NoTime
    /\ data' = Snapshot(DataOrEmpty(data))
    /\ pc' = [pc EXCEPT ![c] = "idle"]
    /\ now_' = [now_ EXCEPT ![c] = NoTime]
    /\ last' = Finished("throttle", headers, FALSE)
    /\ UNCHANGED <<clock, normVars, textVars, auxVars, zoneVars, known>>

\* a variant of the failure branch that publishes an empty mapping
RespondFailureBlanks(c, kind) ==
    /\ pc[c] = "fetching"
    /\ data' = Snapshot(EmptyMap)
    /\ pc' = [pc EXCEPT ![c] = "idle"]
    /\ now_' = [now_ EXCEPT ![c] = NoTime]
    /\ last' = Finished(kind, <<>>, TRUE)
    /\ UNCHANGED <<clock, next_allowed_at, throttle_count,
                   throttle_logged_until, last_http_status, normVars, textVars, auxVars, zoneVars, known>>

\* lines 96-103: any other error of the request raises UpdateFailed
RespondFailure(c, kind) ==
    /\ pc[c] = "fetching"
    /\ pc' = [pc EXCEPT ![c] = "idle"]
    /\ now_' = [now_ EXCEPT ![c] = NoTime]
    /\ last' = Finished(kind, <<>>, TRUE)
    /\ UNCHANGED <<clock, data, next_allowed_at, throttle_count,
                   throttle_logged_until, last_http_status, normVars, textVars, auxVars, zoneVars, known>>

\* the test of lines 155-158: the zones were fetched less than a TTL ago
ZonesFresh(now) ==
    last_zones_fetch # NoTime /\ now - last_zones_fetch < ZONES_CACHE_TTL

\* a variant of the test that asks for the zones of any payload
AwaitsZonesAlways(payload) == ~ZonesFresh(clock)

\* lines 113-118, 155-161: the cycle calls the zones endpoint for this payload
AwaitsZones(payload) ==
    needs_zone_lookup(_extract_devices(payload)) /\ ~ZonesFresh(clock)

\* the fields of the readings of a snapshot that hold a value
ConcreteFields(m) ==
    {<<id, f>> \in (DOMAIN m) \X TelemetryFields : m[id][f] # PyNone}

\* a variant of the publication that updates the live mapping in place,
\* reading by reading
PublishMerges(devices, previous, zmap, zones) ==
    \E normalized \in {NormalizeAll(devices, previous, zmap, EmptyMap)} :
        IF normalized.raised
        THEN /\ data' = data
             /\ known' = known
             /\ last' = [Finished("payload", <<>>, TRUE) EXCEPT !.zones = zones]
        ELSE /\ data' = Snapshot([id \in (DOMAIN DataOrEmpty(data))
                                         \cup (DOMAIN normalized.map) |->
                                    IF id \in DOMAIN normalized.map
                                    THEN normalized.map[id]
                                    ELSE DataOrEmpty(data)[id]])
             /\ known' = known \cup ConcreteFields(normalized.map)
             /\ last' = [Finished("payload", <<>>, FALSE) EXCEPT
                            !.zones = zones,
                            !.kept = {id \in DOMAIN normalized.map :
                                CoalesceKeeps(previous, id, normalized.map[id])}]

\* lines 120-131: the batch is normalized against `previous` and the result
\* is returned and published, unless normalizing a record raises; the
\* readings for which _coalesce_device returned the previous object are
\* recorded
Publish(devices, previous, zmap, zones) ==
    \E normalized \in {NormalizeAll(devices, previous, zmap, EmptyMap)} :
        IF normalized.raised
        THEN /\ data' = data
             /\ known' = known
             /\ last' = [Finished("payload", <<>>, TRUE) EXCEPT !.zones = zones]
        ELSE /\ data' = Snapshot(normalized.map)
             /\ known' = known \cup ConcreteFields(normalized.map)
             /\ last' = [Finished("payload", <<>>, FALSE) EXCEPT
                            !.zones = zones,
                            !.kept = {id \in DOMAIN normalized.map :
                                CoalesceKeeps(previous, id, normalized.map[id])}]

\* a variant of the success branch that leaves _throttle_count as it is
RespondSuccessKeepsCount(c, payload) ==
    /\ pc[c] = "fetching"
    /\ ~AwaitsZones(payload)
    /\ last_http_status' = NoStatus
    /\ next_allowed_at' = NoTime
    /\ throttle_logged_until' = NoTime
    /\ Publish(_extract_devices(payload), DataOrEmpty(data), zone_map, NoZones)
    /\ pc' = [pc EXCEPT ![c] = "idle"]
    /\ now_' = [now_ EXCEPT ![c] = NoTime]
    /\ UNCHANGED <<clock, throttle_count, normVars, textVars, auxVars, zoneVars>>

\* lines 105-131: the request is answered with a payload whose records name
\* no zone, or while the zones are fresh
RespondSuccess(c, payload) ==
    /\ pc[c] = "fetching"
    /\ ~AwaitsZones(payload)
    /\ last_http_status' = NoStatus
    /\ next_allowed_at' = NoTime
    /\ throttle_count' = 0
    /\ throttle_logged_until' = NoTime
    /\ Publish(_extract_devices(payload), DataOrEmpty(data), zone_map, NoZones)
    /\ pc' = [pc EXCEPT ![c] = "idle"]
    /\ now_' = [now_ EXCEPT ![c] = NoTime]
    /\ UNCHANGED <<clock, normVars, textVars, auxVars, zoneVars>>

\* lines 105-118, 151-161: the request is answered with a payload whose
\* records name a zone while the zones are stale; the zones are requested
BeginZonesFetch(c, payload) ==
    /\ pc[c] = "fetching"
    /\ AwaitsZones(payload)
    /\ last_http_status' = NoStatus
    /\ next_allowed_at' = NoTime
    /\ throttle_count' = 0
    /\ throttle_logged_until' = NoTime
    /\ held' = [held EXCEPT ![c] =
                    [payload |-> payload, previous |-> DataOrEmpty(data),
                     znow |-> clock]]
    /\ zones_called_at' = clock
    /\ pc' = [pc EXCEPT ![c] = "zones"]
    /\ now_' = [now_ EXCEPT ![c] = NoTime]
    /\ UNCHANGED <<clock, data, known, last, zone_map,
                   last_zones_fetch, normVars, textVars, auxVars>>

\* a variant of the zones answer that stores whatever mapping was parsed
RespondZonesStoresAny(c, answer) ==
    /\ pc[c] = "zones"
    /\ zone_map' = IF answer.raised THEN zone_map
                   ELSE _parse_zone_map(answer.payload)
    /\ last_zones_fetch' = held[c].znow
    /\ Publish(_extract_devices(held[c].payload), held[c].previous, zone_map',
               [called |-> TRUE, answer |-> answer])
    /\ held' = [held EXCEPT ![c] = NoHeld]
    /\ pc' = [pc EXCEPT ![c] = "idle"]
    /\ UNCHANGED <<clock, next_allowed_at, throttle_count,
                   throttle_logged_until, last_http_status, now_,
                   zones_called_at, normVars, textVars, auxVars>>

\* a variant of the zones answer in which a failed zones call fails the cycle
RespondZonesFailsCycle(c, answer) ==
    /\ pc[c] = "zones"
    /\ zone_map' = IF ~answer.raised /\ _parse_zone_map(answer.payload) # EmptyZoneMap
                   THEN _parse_zone_map(answer.payload) ELSE zone_map
    /\ last_zones_fetch' = held[c].znow
    /\ IF answer.raised
       THEN /\ data' = data
            /\ known' = known
            /\ last' = [Finished("payload", <<>>, TRUE) EXCEPT
                           !.zones = [called |-> TRUE, answer |-> answer]]
       ELSE Publish(_extract_devices(held[c].payload), held[c].previous,
                    zone_map', [called |-> TRUE, answer |-> answer])
    /\ held' = [held EXCEPT ![c] = NoHeld]
    /\ pc' = [pc EXCEPT ![c] = "idle"]
    /\ UNCHANGED <<clock, next_allowed_at, throttle_count,
                   throttle_logged_until, last_http_status, now_,
                   zones_called_at, normVars, textVars, auxVars>>

\* lines 161-169, 120-131: the zones call ends; a mapping that is not empty
\* replaces _zone_map, _last_zones_fetch is set, and the batch is normalized
RespondZones(c, answer) ==
    /\ pc[c] = "zones"
    /\ zone_map' = IF ~answer.raised /\ _parse_zone_map(answer.payload) # EmptyZoneMap
                   THEN _parse_zone_map(answer.payload) ELSE zone_map
    /\ last_zones_fetch' = held[c].znow
    /\ Publish(_extract_devices(held[c].payload), held[c].previous, zone_map',
               [called |-> TRUE, answer |-> answer])
    /\ held' = [held EXCEPT ![c] = NoHeld]
    /\ pc' = [pc EXCEPT ![c] = "idle"]
    /\ UNCHANGED <<clock, next_allowed_at, throttle_count,
                   throttle_logged_until, last_http_status, now_,
                   zones_called_at, normVars, textVars, auxVars>>

\* time passes
Tick(d) ==
    /\ clock + d <= MaxClock
    /\ clock' = clock + d
    /\ UNCHANGED <<data, next_allowed_at, throttle_count,
                   throttle_logged_until, last_http_status, pc, now_, last,
                   normVars, textVars, auxVars, zoneVars, known>>

Next ==
    \/ \E c \in Callers : SkipCycle(c)
    \/ \E c \in Callers : BeginFetch(c)
    \/ \E c \in Callers, h \in ThrottleHeaders : RespondThrottle(c, h)
    \/ \E c \in Callers, k \in FailureKinds : RespondFailure(c, k)
    \/ \E c \in Callers, p \in Payloads : RespondSuccess(c, p)
    \/ \E d \in ClockSteps : Tick(d)

Spec == Init /\ [][Next]_vars

(***************************************************************************)
(* The update cycle of a fleet whose records name zones                    *)
(***************************************************************************)
\* time passes, in steps that reach the TTL of the zones
TickZones(d) ==
    /\ clock + d <= MaxZoneClock
    /\ clock' = clock + d
    /\ UNCHANGED <<data, next_allowed_at, throttle_count,
                   throttle_logged_until, last_http_status, pc, now_, last,
                   normVars, textVars, auxVars, zoneVars, known>>

\* the fleet is throttled without headers and fails in one way
FleetThrottleHeaders == {<<>>}

FleetFailureKinds == {"connection"}

NextFleet ==
    \/ \E c \in Callers : SkipCycle(c)
    \/ \E c \in Callers : BeginFetch(c)
    \/ \E c \in Callers, h \in FleetThrottleHeaders : RespondThrottle(c, h)
    \/ \E c \in Callers, k \in FleetFailureKinds : RespondFailure(c, k)
    \/ \E c \in Callers, p \in FleetPayloads : RespondSuccess(c, p)
    \/ \E c \in Callers, p \in FleetPayloads : BeginZonesFetch(c, p)
    \/ \E c \in Callers, a \in ZonesAnswers : RespondZones(c, a)
    \/ \E d \in ZoneClockSteps : TickZones(d)

SpecFleet == Init /\ [][NextFleet]_vars

TypeOK ==
    /\ clock \in 0..Max(MaxClock, MaxZoneClock)
    /\ throttle_count \in 0..MaxThrottleCount
    /\ pc \in [Callers -> {"idle", "fetching", "zones"}]

(***************************************************************************)
(* A harness for the normalizer: a raw record is built key by key and      *)
(* _normalize_device is applied to it against a previous snapshot          *)
(***************************************************************************)
\* at most MaxEdits keys of the harness record are given a value
MaxEdits == 2

\* the values a key of the harness record is given
RawValues ==
    { PyInt(0), PyFloat(15), PyStr(<<"2", ".", "5">>), PyStr(<<"a">>) }

\* the keys the harness sets (the id is chosen at the start)
NormKeys == RawKeys \ {"unique_id"}

\* the previous snapshots of the harness: none, or vehicle A fully known
NormPrevs ==
    {EmptyMap, NormalizeAll(<<RawFullA>>, EmptyMap, EmptyZoneMap, EmptyMap).map}

InitNorm ==
    /\ clock = 0
    /\ data = NoneData
    /\ next_allowed_at = NoTime
    /\ throttle_count = 0
    /\ throttle_logged_until = NoTime
    /\ last_http_status = NoStatus
    /\ pc = [c \in Callers |-> "idle"]
    /\ now_ = [c \in Callers |-> NoTime]
    /\ last = NoCycle
    /\ n_raw \in {[BlankRaw EXCEPT !.unique_id = u] : u \in {PyStr(IdA), PyNone}}
    /\ n_prev \in NormPrevs
    /\ n_out = NormIdle
    /\ zone_map = EmptyZoneMap
    /\ last_zones_fetch = NoTime
    /\ held = [c \in Callers |-> NoHeld]
    /\ zones_called_at = NoTime
    /\ known = {}
    /\ z_in = <<>>
    /\ z_out = ZoneIdle
    /\ f_in = PyNone
    /\ f_out = FormatIdle
    /\ rq = NoRequest
    /\ k_in = NoKeys
    /\ k_out = LogIdle
    /\ ent = NoUpdates
    /\ h_in = [headers |-> <<>>, now |-> 0]
    /\ h_out = HintIdle
    /\ log_lines = <<>>
    /\ svc = NoService
    /\ veh = NoVehicle
    /\ identity_field = NoField

NormSetKey(k, v) ==
    /\ ~n_out.done
    /\ n_raw[k] = PyNone
    /\ Cardinality({j \in NormKeys : n_raw[j] # PyNone}) < MaxEdits
    /\ n_raw' = [n_raw EXCEPT ![k] = v]
    /\ UNCHANGED <<coordVars, textVars, auxVars, n_prev, n_out>>

NormSetAaData(kind) ==
    /\ ~n_out.done
    /\ n_raw.aaData = "missing"
    /\ kind # "missing"
    /\ n_raw' = [n_raw EXCEPT !.aaData = kind]
    /\ UNCHANGED <<coordVars, textVars, auxVars, n_prev, n_out>>

NormApply ==
    /\ ~n_out.done
    /\ n_out' = [done |-> TRUE,
                  res |-> _normalize_device(n_raw, n_prev, EmptyZoneMap)]
    /\ UNCHANGED <<coordVars, textVars, auxVars, n_raw, n_prev>>

NextNorm ==
    \/ \E k \in NormKeys, v \in RawValues : NormSetKey(k, v)
    \/ \E kind \in AaKinds : NormSetAaData(kind)
    \/ NormApply

SpecNorm == InitNorm /\ [][NextNorm]_vars

(***************************************************************************)
(* Properties of the update cycle                                          *)
(***************************************************************************)
\* a cycle finishes in this step
CycleFinishes == last'.flip # last.flip

\* the refresh task c receives the answer to its devices request in this step
Answered(c) == pc[c] = "fetching" /\ pc'[c] = "idle"

\* C1: poll skip while throttled.  A cycle that starts while next_allowed_at
\* is set and the clock is before it issues no devices request and leaves
\* the snapshot as it is; a cycle is skipped only then, so a cycle started
\* at or after next_allowed_at issues its request.
C1_PollSkipWhileThrottled ==
    [][ /\ (CycleFinishes /\ last'.kind = "skip")
            => /\ next_allowed_at # NoTime
               /\ clock < next_allowed_at
               /\ pc' = pc
               /\ data' = data
        /\ \A c \in Callers :
              (pc[c] = "idle" /\ pc'[c] = "fetching")
                  => ~(next_allowed_at # NoTime /\ clock < next_allowed_at)
      ]_vars

\* C1 witness: a cycle was skipped and the coordinator is still throttled
C1_Witness ==
    /\ last.kind = "skip"
    /\ next_allowed_at # NoTime
    /\ clock < next_allowed_at
    /\ \A c \in Callers : pc[c] = "idle"

\* C2: single in-flight fetch.  At most one devices request is outstanding
\* at any instant.
C2_SingleInFlightFetch ==
    Cardinality({c \in Callers : pc[c] = "fetching"}) <= 1

\* C3: a failed poll never blanks existing data.  A cycle that ends in an
\* endpoint, auth or connection error raises UpdateFailed and leaves the
\* snapshot untouched, and the snapshot changes in no step other than the
\* end of a successful cycle, so it is still the last successful one after
\* any number of failed cycles.
C3_FailedPollKeepsSnapshot ==
    [][ /\ \A c \in Callers :
              (Answered(c) /\ last'.kind \in FailureKinds)
                  => (last'.raised /\ data' = data)
        /\ ~(CycleFinishes /\ last'.kind = "payload")
              => DataOrEmpty(data') = DataOrEmpty(data)
      ]_vars

\* C3 witness: a cycle failed while a snapshot with a vehicle was published
C3_Witness ==
    /\ last.kind \in {"endpoint", "auth", "connection"}
    /\ last.raised
    /\ ~data.none
    /\ DOMAIN data.map # {}

\* the delay of the claim: min(5 * 2^(k-1), 300) seconds, in ms
ClaimedBackoff(k) ==
    IF 5 * Pow2(k - 1) < 300 THEN 5000 * Pow2(k - 1) ELSE 300000

RetryAfterSeconds(headers) ==
    PyIntOfText(_get_header(headers, "Retry-After").chars).v

HasRetryAfterSeconds(headers) ==
    /\ _get_header(headers, "Retry-After").kind = "text"
    /\ PyIntOfText(_get_header(headers, "Retry-After").chars).ok
    /\ RetryAfterSeconds(headers) >= 0

\* C5: Retry-After precedence.  A throttle response with Retry-After: N sets
\* next_allowed_at exactly N seconds after the response was observed,
\* whatever the count of throttle responses.
C5_RetryAfterPrecedence ==
    [][ \A c \in Callers :
          (Answered(c) /\ last'.kind = "throttle"
                       /\ HasRetryAfterSeconds(last'.headers))
              => next_allowed_at' = clock + 1000 * RetryAfterSeconds(last'.headers)
      ]_vars

\* C6: on a throttle response next_allowed_at is the time at which the
\* response was observed plus the delay, not the time read before the
\* request was issued plus the delay.
C6_ResponseTimeBase ==
    [][ \A c \in Callers :
          (Answered(c) /\ last'.kind = "throttle")
              => next_allowed_at' =
                     clock + ThrottleDelay(last'.headers, clock, throttle_count')
      ]_vars

\* C7: a throttle condition is never surfaced as a failure.  The cycle whose
\* request is answered with a throttle error returns normally, republishes
\* the snapshot it found, and changes nothing but the throttle state.
C7_ThrottleIsNotFailure ==
    [][ \A c \in Callers :
          (Answered(c) /\ last'.kind = "throttle")
              => /\ ~last'.raised
                 /\ ~data'.none
                 /\ data'.map = DataOrEmpty(data)
                 /\ throttle_count' = throttle_count + 1
                 /\ next_allowed_at' # NoTime
      ]_vars

\* C7 witness: a throttle response arrived while a vehicle was published,
\* and the vehicle is still published
C7_Witness ==
    /\ last.kind = "throttle"
    /\ ~last.raised
    /\ ~data.none
    /\ DOMAIN data.map # {}
    /\ throttle_count > 0

\* C8: every successful devices fetch resets the throttle state entirely,
\* whatever it was, so that the next throttle response without a hint
\* delays by the initial 5 s again.
C8_SuccessResetsThrottle ==
    [][ /\ \A c \in Callers :
              (Answered(c) /\ last'.kind = "payload")
                  => (throttle_count' = 0 /\ next_allowed_at' = NoTime)
        /\ \A c \in Callers :
              (Answered(c) /\ last'.kind = "throttle" /\ last'.headers = <<>>
                           /\ last.kind = "payload")
                  => next_allowed_at' = now_[c] + 5000
      ]_vars

\* C8 witness: a payload arrived when three throttle responses had been
\* counted, and the state is empty again
C8_Witness ==
    /\ last.kind = "payload"
    /\ last.count0 = 3
    /\ throttle_count = 0
    /\ next_allowed_at = NoTime

\* C9: the throttle state is empty after every response that is not a
\* throttle response: after a payload and equally after an endpoint, auth or
\* connection error.
C9_ResetOnAnyNonThrottled ==
    [][ \A c \in Callers :
          (Answered(c) /\ last'.kind \in {"payload", "endpoint", "auth", "connection"})
              => (throttle_count' = 0 /\ next_allowed_at' = NoTime)
      ]_vars

(***************************************************************************)
(* Properties of the normalizer                                            *)
(***************************************************************************)
CanFloat(v) ==
    v.t \in {"int", "float"} \/ (v.t = "str" /\ PyFloatOfText(v.s).ok)

CanInt(v) ==
    v.t \in {"int", "float"} \/ (v.t = "str" /\ PyIntOfText(v.s).ok)

\* the first of the candidate values that converts to a float, converted,
\* or the previous value when none does
RECURSIVE FirstFloat(_, _)
FirstFloat(cands, previous) ==
    IF cands = <<>> THEN previous
    ELSE IF CanFloat(Head(cands)) THEN _as_float(Head(cands), previous)
    ELSE FirstFloat(Tail(cands), previous)

RECURSIVE FirstInt(_, _)
FirstInt(cands, previous) ==
    IF cands = <<>> THEN previous
    ELSE IF CanInt(Head(cands)) THEN _as_int(Head(cands), previous)
    ELSE FirstInt(Tail(cands), previous)

\* the merged value of field f that field-level carry-forward asks for: the
\* new value when the record supplies a convertible one under one of the
\* keys of f, the previous value otherwise
MergedField(raw, previous, id, f) ==
    LET prev == PrevGet(previous, id, f)
        pt(k) == PointGet(raw, k)
    IN  CASE f = "lat" -> FirstFloat(<<pt("p_lat")>>, prev)
          [] f = "lon" -> FirstFloat(<<pt("p_lng"), pt("p_lon")>>, prev)
          [] f = "speed_kmh" -> FirstFloat(<<pt("p_speed")>>, prev)
          [] f = "volts" -> FirstFloat(<<pt("p_volts"), raw.volts>>, prev)
          [] f = "odometer" -> FirstFloat(<<raw.odometer>>, prev)
          [] f = "acc_counter" -> FirstFloat(<<raw.acc_counter>>, prev)
          [] f = "external_power" -> FirstInt(<<raw.external_power>>, prev)
          [] f = "engine" -> FirstInt(<<raw.engine>>, prev)
          [] f = "comms_delta" -> FirstInt(<<raw.comms_delta>>, prev)
          [] f = "timestamp_epoch" ->
                FirstInt(<<pt("p_epoch"), raw.last_data_at_epoch>>, prev)
          [] OTHER ->
                IF CanFloat(raw.internal_battery) THEN raw.internal_battery
                ELSE prev

\* C10: field-level carry-forward.  For every telemetry field, the merged
\* value is the new value when the record supplies a convertible one (0
\* included) and the previous value otherwise, each field on its own.
C10_FieldCarryForward ==
    (n_out.done /\ n_out.res.ok)
        => \A f \in TelemetryFields :
              n_out.res.entry[f] = MergedField(n_raw, n_prev, n_out.res.id, f)

(***************************************************************************)
(* Properties of the snapshot of a fleet                                   *)
(***************************************************************************)
\* the cycle of c ends in this step, its devices request answered by a payload
FinishesPayload(c) ==
    pc[c] # "idle" /\ pc'[c] = "idle" /\ last'.kind = "payload"

\* the cycle of c ends in this step by publishing a snapshot
Publishes(c) == FinishesPayload(c) /\ ~last'.raised

\* the `previous` of line 111 of the cycle of c that ends in this step
PreviousOf(c) ==
    IF pc[c] = "zones" THEN held[c].previous ELSE DataOrEmpty(data)

\* the cycle of c calls the zones endpoint in this step
CallsZones(c) == pc[c] # "zones" /\ pc'[c] = "zones"

\* C11: carry-forward across cycles.  A telemetry field of a vehicle that
\* some published snapshot held a concrete value of is never None in a
\* later snapshot that holds the vehicle, whatever cycles lie in between.
C11_NoRegressionToNone ==
    \A p \in known :
        (~data.none /\ p[1] \in DOMAIN data.map) => data.map[p[1]][p[2]] # PyNone

\* C12: coalescing.  In a cycle that publishes, a reading that is
\* field-for-field equal to the previous reading of its id is the very
\* object `previous` held, and any other reading is a new object; a record
\* that is the raw record of the previous reading, its zones resolving to
\* the same names, yields the previous object.
C12_Coalescing ==
    [][ \A c \in Callers :
          Publishes(c) =>
              /\ last'.kept =
                     {id \in DOMAIN data'.map :
                         /\ id \in DOMAIN PreviousOf(c)
                         /\ PreviousOf(c)[id] = data'.map[id]}
              /\ \A id \in (DOMAIN data'.map) \cap (DOMAIN PreviousOf(c)) :
                     ( /\ data'.map[id].raw = PreviousOf(c)[id].raw
                       /\ data'.map[id].zone_names = PreviousOf(c)[id].zone_names )
                         => id \in last'.kept
      ]_vars

\* C12 witness: a cycle published, for vehicle A, the object `previous` held
C12_Witness ==
    /\ last.kind = "payload"
    /\ ~last.raised
    /\ IdA \in last.kept

\* C13: every key of the snapshot is a non-empty identifier, the stripped
\* unique_id of the record its reading was built from; a record whose
\* unique_id is missing, empty or blank has no reading.
C13_NonEmptyIds ==
    ~data.none =>
        \A id \in DOMAIN data.map :
            /\ id # <<>>
            /\ Strip(id) = id
            /\ id = Strip(PyStrOf(data.map[id].raw.unique_id))
            /\ data.map[id].raw.unique_id.t # "none"

\* C13 witness: a batch that holds records without an identifier before and
\* after the record of vehicle A was published as the reading of A alone
C13_Witness ==
    /\ last.kind = "payload"
    /\ ~last.raised
    /\ ~data.none
    /\ DOMAIN data.map = {IdA}
    /\ data.map[IdA].raw = RawBareA

\* C14: per-vehicle normalization failures are contained.  A cycle whose
\* devices request is answered by a payload ends without an exception,
\* whatever the field values of its records.
C14_NormalizationContained ==
    ~(last.kind = "payload" /\ last.raised)

\* C15: zone cache TTL.  A cycle calls the zones endpoint only if no zones
\* call was made within the last ZONES_CACHE_TTL, and a cycle that publishes
\* a reading with a zone without calling the endpoint found the zones fresh.
C15_ZonesOncePerTtl ==
    [][ \A c \in Callers :
          /\ CallsZones(c) =>
                 (zones_called_at = NoTime
                    \/ clock - zones_called_at >= ZONES_CACHE_TTL)
          /\ ( /\ Publishes(c)
               /\ pc[c] = "fetching"
               /\ \E id \in DOMAIN data'.map :
                      Strip(data'.map[id].raw.zone.s) # <<>> )
                 => (last_zones_fetch # NoTime
                       /\ clock - last_zones_fetch < ZONES_CACHE_TTL)
      ]_vars

C17_ZonesOnDemand ==
    [][ /\ \A c \in Callers :
              CallsZones(c) =>
                  /\ pc[c] = "fetching"
                  /\ held'[c].payload.shape \in {"direct", "wrapped"}
                  /\ \E i \in 1..Len(held'[c].payload.items) :
                        LET r == held'[c].payload.items[i]
                        IN  r.dict /\ r.zone.t = "str"
                              /\ \E j \in 1..Len(r.zone.s) : r.zone.s[j] # " "
        /\ (CycleFinishes /\ last'.kind # "payload") =>
              /\ ~last'.zones.called
              /\ \A c \in Callers : pc[c] # "zones" \/ pc'[c] = "zones"
              /\ zones_called_at' = zones_called_at
        /\ zones_called_at = NoTime =>
              (zone_map = EmptyZoneMap /\ last_zones_fetch = NoTime)
      ]_vars

\* C17 witness: a cycle awaits the zones it asked for, after a cycle that
\* was throttled and called nothing
C17_Witness ==
    /\ last.kind = "throttle"
    /\ \E c \in Callers :
          pc[c] = "zones" /\ held[c].payload = Payload("wrapped", <<RawZonedA>>)

\* C18: zone names.  Every reading a cycle publishes has as many zone names
\* as zone ids, in the same order, each the name the zone mapping gives the
\* id, or the id itself where the mapping has none; zone_count is the
\* number of ids and zone_state the names joined by ", ".  The mapping is
\* _zone_map as the cycle itself left it.
C18_ZoneNames ==
    [][ \A c \in Callers :
          Publishes(c) =>
              \A id \in DOMAIN data'.map :
                  LET e == data'.map[id]
                  IN  /\ Len(e.zone_names) = Len(e.zone_ids)
                      /\ \A i \in 1..Len(e.zone_ids) :
                            e.zone_names[i] =
                               IF e.zone_ids[i] \in DOMAIN zone_map'
                               THEN zone_map'[e.zone_ids[i]] ELSE e.zone_ids[i]
                      /\ e.zone_count = PyInt(Len(e.zone_ids))
                      /\ e.zone_state = PyStr(JoinWith(e.zone_names, CommaSpace))
      ]_vars

\* C18 witness: the cycle that fetched the zones published vehicle A with
\* one zone resolved and one passed through
C18_Witness ==
    /\ last.kind = "payload"
    /\ last.zones.called
    /\ ~data.none
    /\ IdA \in DOMAIN data.map
    /\ data.map[IdA].zone_ids = <<Z1, Z9>>
    /\ data.map[IdA].zone_names = <<Depot, Z9>>
    /\ data.map[IdA].zone_state = PyStr(Depot \o <<",", " ">> \o Z9)
    /\ data.map[IdA].zone_count = PyInt(2)

(***************************************************************************)
(* A harness for _parse_zone_ids: a zone text is typed character by        *)
(* character and parsed                                                    *)
(***************************************************************************)
\* the zone text of the harness has at most MaxZoneLen characters
MaxZoneLen == 4

ZoneChars == {"a", "b", ",", " "}

ZoneAppend(ch) ==
    /\ ~z_out.done
    /\ Len(z_in) < MaxZoneLen
    /\ z_in' = Append(z_in, ch)
    /\ UNCHANGED <<coordVars, normVars, auxVars, z_out, f_in, f_out>>

ZoneParse ==
    /\ ~z_out.done
    /\ z_out' = [done |-> TRUE, ids |-> _parse_zone_ids(z_in)]
    /\ UNCHANGED <<coordVars, normVars, auxVars, z_in, f_in, f_out>>

NextZoneText ==
    \/ \E ch \in ZoneChars : ZoneAppend(ch)
    \/ ZoneParse

SpecZoneText == Init /\ [][NextZoneText]_vars

\* the segments of a zone text, told by the commas around them: the segment
\* that starts after position p (0, or the position of a comma)
SegmentAfter(z, p) ==
    LET ends == {q \in (p + 1)..Len(z) : z[q] = ","} \cup {Len(z) + 1}
        q    == CHOOSE e \in ends : \A o \in ends : e <= o
    IN  SubSeq(z, p + 1, q - 1)

\* a segment without the blanks at its ends
Trimmed(seg) ==
    LET inked == {i \in 1..Len(seg) : seg[i] # " "}
    IN  IF inked = {} THEN <<>>
        ELSE SubSeq(seg, CHOOSE i \in inked : \A j \in inked : i <= j,
                         CHOOSE i \in inked : \A j \in inked : i >= j)

\* the trimmed segments of a zone text that are not empty, in their order
ClaimedZoneIds(z) ==
    LET starts == {p \in {0} \cup {i \in 1..Len(z) : z[i] = ","} :
                      Trimmed(SegmentAfter(z, p)) # <<>>}
    IN  [k \in 1..Cardinality(starts) |->
            Trimmed(SegmentAfter(z,
                CHOOSE p \in starts :
                    Cardinality({q \in starts : q < p}) = k - 1))]

\* the zone text "abc, def,,ghi "
ZoneExample ==
    <<"a", "b", "c", ",", " ", "d", "e", "f", ",", ",", "g", "h", "i", " ">>

\* C19: zone-id parsing.  _parse_zone_ids yields the segments between the
\* commas of the zone text, each trimmed, without those that are empty once
\* trimmed, in their order; no id is empty, padded or holds a comma, and
\* parsing the ids joined by commas yields the same ids.
C19_ParseZoneIds ==
    /\ _parse_zone_ids(ZoneExample)
           = << <<"a", "b", "c">>, <<"d", "e", "f">>, <<"g", "h", "i">> >>
    /\ _parse_zone_ids(<<>>) = <<>>
    /\ z_out.done =>
           /\ z_out.ids = ClaimedZoneIds(z_in)
           /\ \A i \in 1..Len(z_out.ids) :
                  /\ z_out.ids[i] # <<>>
                  /\ z_out.ids[i][1] # " "
                  /\ z_out.ids[i][Len(z_out.ids[i])] # " "
                  /\ \A j \in 1..Len(z_out.ids[i]) : z_out.ids[i][j] # ","
           /\ _parse_zone_ids(JoinWith(z_out.ids, <<",">>)) = z_out.ids

\* C19 witness: " a,b" was parsed, a padded segment before another one
C19_Witness ==
    /\ z_out.done
    /\ z_in = <<" ", "a", ",", "b">>
    /\ z_out.ids = << <<"a">>, <<"b">> >>

(***************************************************************************)
(* A harness for format_comms_delta: a number of seconds is chosen and     *)
(* formatted                                                               *)
(***************************************************************************)
\* the durations of the harness span at most MaxYears years
MaxYears == 1

\* the seconds of a unit of _DURATION_UNITS
UnitSeconds(unit) ==
    (CHOOSE u \in {DurationUnits[i] : i \in 1..Len(DurationUnits)} :
        u.unit = unit).seconds

\* raw values: one more than a duration of few or many of each unit, and
\* the values of test_format_comms_delta_two_levels_and_minus_one
CommsSeconds ==
    { 1 + y * UnitSeconds("year") + mo * UnitSeconds("month")
        + d * UnitSeconds("day") + h * UnitSeconds("hour")
        + mi * UnitSeconds("minute") + sec :
        y \in 0..MaxYears, mo \in {0, 1, 11}, d \in {0, 1, 29},
        h \in {0, 1, 23}, mi \in {0, 1, 59}, sec \in {0, 1, 59} }
      \cup {0, 45, 61, 119, 3700, 90061, 31700000}

CommsChoose(r) ==
    /\ ~f_out.done
    /\ f_in = PyNone
    /\ f_in' = PyInt(r)
    /\ UNCHANGED <<coordVars, normVars, auxVars, z_in, z_out, f_out>>

CommsFormat ==
    /\ ~f_out.done
    /\ f_out' = [done |-> TRUE, res |-> format_comms_delta(f_in)]
    /\ UNCHANGED <<coordVars, normVars, auxVars, z_in, z_out, f_in>>

NextComms ==
    \/ \E r \in CommsSeconds : CommsChoose(r)
    \/ CommsFormat

SpecComms == Init /\ [][NextComms]_vars

\* the greedy decomposition of a seconds: what is left for unit i once the
\* larger units took their share, and the count of unit i
RECURSIVE GreedyRest(_, _)
GreedyRest(a, i) ==
    IF i = 1 THEN a ELSE GreedyRest(a, i - 1) % DurationUnits[i - 1].seconds

GreedyCount(a, i) == GreedyRest(a, i) \div DurationUnits[i].seconds

\* the text the formatting rule asks for: the two largest units of the
\* greedy decomposition whose count is not zero ("0 seconds" for nothing)
ClaimedParts(a) ==
    LET used   == {i \in 1..Len(DurationUnits) : GreedyCount(a, i) > 0}
        first  == CHOOSE i \in used : \A j \in used : i <= j
        others == used \ {first}
        second == CHOOSE i \in others : \A j \in others : i <= j
        part(i) == [n |-> GreedyCount(a, i),
                    unit |-> _pluralize(DurationUnits[i].unit, GreedyCount(a, i))]
    IN  IF used = {} THEN <<[n |-> 0, unit |-> "seconds"]>>
        ELSE IF others = {} THEN <<part(first)>>
        ELSE <<part(first), part(second)>>

\* the seconds a rendered component names
ComponentSeconds(c) ==
    c.n * (CHOOSE u \in {DurationUnits[i] : i \in 1..Len(DurationUnits)} :
              c.unit \in {u.unit, _pluralize(u.unit, 2)}).seconds

RECURSIVE NamedSeconds(_)
NamedSeconds(parts) ==
    IF parts = <<>> THEN 0
    ELSE ComponentSeconds(Head(parts)) + NamedSeconds(Tail(parts))

\* C20: last-communication formatting.  For raw seconds r >= 0 the text of
\* format_comms_delta(r) is the two largest non-zero units of the greedy
\* decomposition of a = max(r - 1, 0), singular for a count of 1, one unit
\* when only one is non-zero, and the duration it names never exceeds a.
C20_FormatCommsDelta ==
    (f_out.done /\ f_in.t = "int" /\ f_in.n >= 0) =>
        /\ f_out.res = PyParts(ClaimedParts(Max(f_in.n - 1, 0)))
        /\ NamedSeconds(f_out.res.s) <= Max(f_in.n - 1, 0)

(***************************************************************************)
(* The update cycle over the upstream client: the devices request of a     *)
(* cycle is answered by an HTTP response that _async_request classifies    *)
(***************************************************************************)
\* lines 81-131 over api.py 126-162: the response is classified and the
\* cycle takes the branch of the result.  The coordinator's throttle branch
\* takes the status and the headers from the exception; a failure raises
\* UpdateFailed; a payload resets the throttle, stores
\* getattr(client, "last_http_status", None) (the client has no such
\* attribute) and publishes the normalized batch.  The records of
\* ClientBodies name no zone.
RespondHttp(c, resp) ==
    /\ pc[c] = "fetching"
    /\ \E result \in {_async_request(resp)} :
         /\ rq' = [asked |-> TRUE, resp |-> resp, result |-> result]
         /\ CASE result.kind = "throttle" ->
                   /\ throttle_count < MaxThrottleCount
                   /\ last_http_status' = result.status
                   /\ throttle_count' = throttle_count + 1
                   /\ next_allowed_at' =
                          now_[c] + ThrottleDelay(result.headers, now_[c],
                                                  throttle_count + 1)
                   /\ throttle_logged_until' = NoTime
                   /\ data' = Snapshot(DataOrEmpty(data))
                   /\ last' = Finished("throttle", result.headers, FALSE)
                   /\ UNCHANGED known
              [] result.kind = "payload" ->
                   /\ ~AwaitsZones(result.payload)
                   /\ last_http_status' = NoStatus
                   /\ next_allowed_at' = NoTime
                   /\ throttle_count' = 0
                   /\ throttle_logged_until' = NoTime
                   /\ Publish(_extract_devices(result.payload),
                              DataOrEmpty(data), zone_map, NoZones)
              [] OTHER ->
                   /\ last' = Finished(result.kind, <<>>, TRUE)
                   /\ UNCHANGED <<data, next_allowed_at, throttle_count,
                                  throttle_logged_until, last_http_status,
                                  known>>
    /\ pc' = [pc EXCEPT ![c] = "idle"]
    /\ now_' = [now_ EXCEPT ![c] = NoTime]
    /\ UNCHANGED <<clock, normVars, textVars, zoneVars, redactVars,
                   entityVars, hintVars, appVars>>

NextClient ==
    \/ \E c \in Callers : BeginFetch(c)
    \/ \E c \in Callers, r \in ClientResponses : RespondHttp(c, r)

SpecClient == Init /\ [][NextClient]_vars

\* the client results that the specification of the client names
ClientTaxonomy == {"payload", "endpoint", "auth", "throttle", "connection"}

\* C21: HTTP 429 is a throttle error.  A devices request answered by a
\* response with status 429 ends in a throttle error that carries the
\* status and the headers of the response to the coordinator, whose cycle
\* takes the throttle branch and leaves the readings of the snapshot as
\* they are.
C21_TooManyRequestsIsThrottle ==
    [][ \A c \in Callers :
          ( /\ Answered(c)
            /\ rq'.resp.net = "ok"
            /\ rq'.resp.status = HTTP_TOO_MANY_REQUESTS )
            => ( /\ rq'.result.kind = "throttle"
                 /\ rq'.result.status = HTTP_TOO_MANY_REQUESTS
                 /\ rq'.result.headers = rq'.resp.headers
                 /\ last'.kind = "throttle"
                 /\ DataOrEmpty(data') = DataOrEmpty(data) )
      ]_vars

\* C22: the result taxonomy is closed.  Whatever the network does and
\* whatever status and body the response has, the call of _async_request
\* ends in a payload or in one of the errors of the taxonomy, and the result
\* is a payload only if a response with a JSON body arrived.
C22_TaxonomyClosed ==
    rq.asked =>
        /\ rq.result.kind \in ClientTaxonomy
        /\ rq.result.kind = "payload" =>
               (rq.resp.net = "ok" /\ rq.resp.body.json)

\* a request that timed out, and one whose body was not JSON, were both
\* answered to the caller with a ClientError
C22_Witness ==
    /\ rq.asked
    /\ rq.resp.net \in {"timeout", "other"}
    /\ rq.result.kind = "connection"
    /\ last.kind = "connection"
    /\ last.raised

\* C26: last_http_status is the status of the most recent devices response.
\* Once a response to a devices request has arrived, last_http_status is
\* the HTTP status of the latest one.
C26_LastHttpStatus ==
    (rq.asked /\ rq.resp.net = "ok") => last_http_status = rq.resp.status

(***************************************************************************)
(* A harness for the redaction: the credentials of a client are written    *)
(* character by character and a request is logged                          *)
(***************************************************************************)
\* the two credentials have at most MaxSecretChars characters together
MaxSecretChars == 5

SecretChars == {"a", "b", "*"}

CredentialKeys == {"api_key", "user_key"}

KeyAppend(key, ch) ==
    /\ ~k_out.done
    /\ Len(k_in.api_key) + Len(k_in.user_key) < MaxSecretChars
    /\ k_in' = [k_in EXCEPT ![key] = Append(@, ch)]
    /\ UNCHANGED <<coordVars, normVars, textVars, clientVars, entityVars,
                   hintVars, appVars, k_out>>

\* lines 103-124 of _async_request, for the devices call
LogRequest ==
    /\ ~k_out.done
    /\ k_out' = [done |-> TRUE,
                 line |-> redacted_query("devices", "get",
                                         k_in.api_key, k_in.user_key)]
    /\ UNCHANGED <<coordVars, normVars, textVars, clientVars, entityVars,
                   hintVars, appVars, k_in>>

NextRedact ==
    \/ \E key \in CredentialKeys, ch \in SecretChars : KeyAppend(key, ch)
    \/ LogRequest

SpecRedact == Init /\ [][NextRedact]_vars

\* `needle in hay` for two texts
Contains(hay, needle) ==
    \E i \in 0..(Len(hay) - Len(needle)) :
        SubSeq(hay, i + 1, i + Len(needle)) = needle

\* C23: credential redaction.  In the request line that is logged, an empty
\* credential shows as "", one of at most 4 characters as "***", a longer
\* one as its first two characters, "***" and its last two; and what the
\* line shows of a credential that is not empty does not contain it.
C23_Redaction ==
    k_out.done =>
        \A key \in CredentialKeys :
            LET Shown(secret, shown) ==
                    /\ secret = <<>> => shown = <<>>
                    /\ (secret # <<>> /\ Len(secret) <= 4)
                           => shown = <<"*", "*", "*">>
                    /\ Len(secret) > 4 =>
                           shown = <<secret[1], secret[2], "*", "*", "*",
                                     secret[Len(secret) - 1],
                                     secret[Len(secret)]>>
                    /\ secret # <<>> => ~Contains(shown, secret)
            IN  Shown(k_in[key], k_out.line[key])

\* C24: atomic publication.  The snapshot changes only in the step in which
\* a cycle ends, never while a cycle awaits the devices or the zones; a
\* cycle that was skipped, throttled or failed leaves the readings as they
\* were; and a cycle that publishes replaces the mapping as a whole: every
\* reading of the new mapping is built from a record of the one payload of
\* the cycle, and all of them against the one `previous` that the cycle
\* read before it awaited the zones.
C24_AtomicPublication ==
    [][ /\ data' # data => CycleFinishes
        /\ (CycleFinishes /\ (last'.kind # "payload" \/ last'.raised))
               => DataOrEmpty(data') = DataOrEmpty(data)
        /\ \A c \in Callers :
              Publishes(c) =>
                  /\ \E p \in FleetPayloads :
                        /\ pc[c] = "zones" => p = held[c].payload
                        /\ \A id \in DOMAIN data'.map :
                              \E i \in 1..Len(p.items) :
                                  p.items[i] = data'.map[id].raw
                  /\ \A id \in DOMAIN data'.map :
                        data'.map[id] =
                            _coalesce_device(PreviousOf(c), id,
                                NormalizedEntry(data'.map[id].raw,
                                                PreviousOf(c), id, zone_map'))
      ]_vars

\* C24 witness: a cycle that awaited the zones published vehicle A while
\* the request of the other task is in flight
C24_Witness ==
    /\ last.kind = "payload"
    /\ ~last.raised
    /\ last.zones.called
    /\ IdA \in DOMAIN data.map
    /\ data.map[IdA].raw = RawZonedA
    /\ \E c \in Callers : pc[c] = "fetching"

(***************************************************************************)
(* Readers of the snapshot: an entity, or any caller that holds what a     *)
(* cycle returned, reaches the readings through coordinator.data           *)
(***************************************************************************)
\* the fields and values a reader assigns (test_entities.py 160-161 sets
\* external_power and engine to 1)
ReaderFields == {"external_power", "engine"}

ReaderValues == {PyInt(0), PyInt(1)}

\* _vehicle (sensor.py 81-87) and `return self.data or {}` hand out the dict
\* of the live snapshot itself, so an assignment through it is an
\* assignment to the reading the coordinator holds
ReaderWrite(id, f, v) ==
    /\ ~data.none
    /\ id \in DOMAIN data.map
    /\ data' = Snapshot([data.map EXCEPT ![id][f] = v])
    /\ UNCHANGED <<clock, next_allowed_at, throttle_count,
                   throttle_logged_until, last_http_status, pc, now_, last,
                   normVars, textVars, auxVars, zoneVars, known>>

NextReader ==
    \/ \E c \in Callers : BeginFetch(c)
    \/ \E c \in Callers, k \in FleetFailureKinds : RespondFailure(c, k)
    \/ \E c \in Callers, p \in Payloads : RespondSuccess(c, p)
    \/ \E id \in {IdA}, f \in ReaderFields, v \in ReaderValues :
           ReaderWrite(id, f, v)

SpecReader == Init /\ [][NextReader]_vars

\* C25: the snapshot is owned by the coordinator.  The readings of the live
\* snapshot change only in a step that ends a cycle of the coordinator;
\* nothing a reader does with the mapping it obtained changes them.
C25_SnapshotOwnedByCoordinator ==
    [][DataOrEmpty(data') # DataOrEmpty(data) => CycleFinishes]_vars

\* C27: the throttled accessor.  throttled_until is not None exactly while
\* a cycle started now would be skipped, that is while _next_allowed_at is
\* set and the clock is before it.
C27_ThrottledUntilWhileThrottled ==
    (~throttled_until.none) <=>
        (next_allowed_at # NoTime /\ clock < next_allowed_at)

\* C28: no terminal state.  Every cycle that ends returns a snapshot or
\* raises UpdateFailed, and its task is idle again; a cycle is skipped only
\* while the clock is before _next_allowed_at; and an idle task can start a
\* cycle that issues the devices request as soon as the clock is not before
\* _next_allowed_at.
C28_NoTerminalState ==
    [][ /\ CycleFinishes =>
              /\ last'.raised => last'.kind \in FailureKinds
              /\ \A c \in Callers : pc'[c] # pc[c] => pc'[c] = "idle"
        /\ (CycleFinishes /\ last'.kind = "skip") =>
              (next_allowed_at # NoTime /\ clock < next_allowed_at)
        /\ \A c \in Callers :
              ( /\ pc[c] = "idle"
                /\ ~(next_allowed_at # NoTime /\ clock < next_allowed_at) )
                  => ENABLED BeginFetch(c)
      ]_vars

(***************************************************************************)
(* The update cycle of a coordinator that is throttled with long hints     *)
(***************************************************************************)
\* throttle responses without a hint, and with hints of 300 s, of 301 s and
\* of 300001 ms
CeilingHeaders ==
    { <<>>,
      <<Hdr("Retry-After", Text(<<"3", "0", "0">>))>>,
      <<Hdr("Retry-After", Text(<<"3", "0", "1">>))>>,
      <<Hdr("x-ms-retry-after-ms", Text(<<"3", "0", "0", "0", "0", "1">>))>> }

CeilingPayloads == {Payload("wrapped", <<RawFullA>>)}

NextCeiling ==
    \/ \E c \in Callers : SkipCycle(c)
    \/ \E c \in Callers : BeginFetch(c)
    \/ \E c \in Callers, h \in CeilingHeaders : RespondThrottle(c, h)
    \/ \E c \in Callers, p \in CeilingPayloads : RespondSuccess(c, p)
    \/ \E d \in ClockSteps : Tick(d)

SpecCeiling == Init /\ [][NextCeiling]_vars

\* C29: backoff ceiling.  When a throttle response arrives, the pause it
\* imposes, _next_allowed_at minus the time of the response, is at least 0
\* and at most THROTTLE_BACKOFF_MAX seconds, with or without hint headers.
C29_PauseWithinCeiling ==
    [][ \A c \in Callers :
          (Answered(c) /\ last'.kind = "throttle") =>
              /\ next_allowed_at' - clock >= 0
              /\ next_allowed_at' - clock <= 1000 * THROTTLE_BACKOFF_MAX
      ]_vars

(***************************************************************************)
(* The entities of vehicle A: the coordinator delivers an update and the   *)
(* _handle_coordinator_update of the device tracker and of the volts       *)
(* sensor run                                                              *)
(***************************************************************************)
\* no more than MaxUpdates updates are delivered
MaxUpdates == 4

\* _vehicle: the reading of the vehicle, if the snapshot holds one
HasVehicle(d, id) == ~d.none /\ d.map # EmptyMap /\ id \in DOMAIN d.map

\* the tuple of device_tracker.py 137-141: latitude, longitude and
\* extra_state_attributes (lines 101-111), which is {} without a vehicle
TrackerSnapshot(d, id) ==
    IF HasVehicle(d, id)
    THEN Written(<<d.map[id].lat, d.map[id].lon>>,
                 <<d.map[id].speed_kmh, d.map[id].volts,
                   d.map[id].last_comms, d.map[id].rego,
                   d.map[id].timestamp_dt_utc>>)
    ELSE Written(<<PyNone, PyNone>>, <<>>)

\* TrackMyRideVoltsSensor.native_value (sensor.py 151-161): the volts as a
\* float rounded to 2 places, which leaves a value in tenths as it is
VoltsNativeValue(d, id) ==
    IF ~HasVehicle(d, id) THEN PyNone
    ELSE IF d.map[id].volts.t \in {"int", "float"}
    THEN PyFloat(IF d.map[id].volts.t = "int"
                 THEN d.map[id].volts.n * FloatScale ELSE d.map[id].volts.n)
    ELSE PyNone

\* what the sensor finds as _handle_coordinator_update: sensor.py defines
\* none, so it is the one of the CoordinatorEntity it is built on, which
\* writes the state on every update (Home Assistant), or none at all (the
\* CoordinatorEntity of tests/conftest.py 144-152), and the call raises
SensorBases == {"homeassistant", "conftest"}

\* vehicle A renamed, and at another voltage
RawRenamedA == [RawFullA EXCEPT !.name = PyStr(<<"u", "t", "e">>)]

RawChargedA == [RawFullA EXCEPT !.volts = PyInt(13)]

\* the snapshots an update delivers: without vehicle A, and with the
\* reading of one of its records
EntitySnapshots ==
    {Snapshot(EmptyMap)}
    \cup {Snapshot(NormalizeAll(<<r>>, EmptyMap, EmptyZoneMap, EmptyMap).map) :
             r \in {RawFullA, RawRenamedA, RawChargedA, RawZeroA, RawBareA}}

\* async_set_updated_data: the snapshot is replaced and the handler of each
\* entity is called.  The tracker writes unless the tuple equals
\* _last_snapshot (device_tracker.py 134-145).
UpdateEntities(d, base) ==
    /\ ent.updates < MaxUpdates
    /\ data' = d
    /\ ent' = [updates |-> ent.updates + 1,
               tracker_last |-> TrackerSnapshot(d, IdA),
               tracker_wrote |-> TrackerSnapshot(d, IdA) # ent.tracker_last,
               tracker_written |->
                   IF TrackerSnapshot(d, IdA) # ent.tracker_last
                   THEN TrackerSnapshot(d, IdA) ELSE ent.tracker_written,
               sensor_wrote |-> base = "homeassistant",
               sensor_raised |-> base = "conftest",
               sensor_written |->
                   IF base = "homeassistant"
                   THEN Written(VoltsNativeValue(d, IdA), <<>>)
                   ELSE ent.sensor_written]
    /\ UNCHANGED <<clock, next_allowed_at, throttle_count,
                   throttle_logged_until, last_http_status, pc, now_, last,
                   normVars, textVars, clientVars, redactVars, hintVars, appVars,
                   zoneVars, known>>

NextEntities ==
    \E d \in EntitySnapshots, base \in SensorBases : UpdateEntities(d, base)

SpecEntities == Init /\ [][NextEntities]_vars

\* C30: entities skip redundant writes.  At every update an entity writes
\* its state exactly if it has written nothing yet or its observable
\* values differ from those it wrote last: the tracker its position and
\* attributes, the sensor its native value.
C30_EntitiesSkipRedundantWrites ==
    [][ ent'.updates # ent.updates =>
          /\ ent'.tracker_wrote <=>
                 (ent.tracker_written.none
                    \/ TrackerSnapshot(data', IdA) # ent.tracker_written)
          /\ ent'.sensor_wrote <=>
                 (ent.sensor_written.none
                    \/ Written(VoltsNativeValue(data', IdA), <<>>)
                           # ent.sensor_written)
      ]_vars

RetryAfterValues ==
    { Text(<<"7">>), Text(<<"-", "3">>), Text(<<" ", "4", " ">>),
      Text(<<"s", "o", "o", "n">>), Text(<<>>), HttpDate(3000) }

RetryAfterNames == {"Retry-After", "retry-after", "RETRY-AFTER"}

\* the values of x-ms-retry-after-ms: milliseconds, negative, and a word
RetryAfterMsValues ==
    {Text(<<"1", "5", "0", "0">>), Text(<<"-", "2", "0">>), Text(<<"x">>)}

RetryAfterMsNames == {"x-ms-retry-after-ms", "X-Ms-Retry-After-Ms"}

HintHeaders ==
    { ra \o ms :
        ra \in {<<>>} \cup {<<Hdr(n, v)>> : n \in RetryAfterNames,
                                            v \in RetryAfterValues},
        ms \in {<<>>} \cup {<<Hdr(n, v)>> : n \in RetryAfterMsNames,
                                            v \in RetryAfterMsValues} }

\* the times (ms) at which the headers are read: before and after the date
HintNows == {0, 2000, 5000}

HintsChoose(headers, now) ==
    /\ ~h_out.done
    /\ h_in' = [headers |-> headers, now |-> now]
    /\ UNCHANGED <<coordVars, normVars, textVars, clientVars, redactVars,
                   entityVars, appVars, h_out>>

\* lines 87-92 for the first throttle response of a streak
HintsApply ==
    /\ ~h_out.done
    /\ h_out' = [done |-> TRUE,
                 delay |-> _retry_delay_from_headers(h_in.headers, h_in.now),
                 pause |-> ThrottleDelay(h_in.headers, h_in.now, 1)]
    /\ UNCHANGED <<coordVars, normVars, textVars, clientVars, redactVars,
                   entityVars, appVars, h_in>>

NextHints ==
    \/ \E h \in HintHeaders, now \in HintNows : HintsChoose(h, now)
    \/ HintsApply

SpecHints == Init /\ [][NextHints]_vars

\* the value of the first header whose name is `lower` in lower case
HeaderNamed(headers, lower) ==
    LET at == {i \in 1..Len(headers) : LowerName(headers[i].k) = lower}
        First(idx) == headers[CHOOSE i \in idx : \A j \in idx : i <= j].v
    IN  IF at = {} THEN NoValue ELSE First(at)

\* the hint (ms) the claim reads from the headers at `now`, or NoDelay
ClaimedHint(headers, now) ==
    LET Whole(v, parsed) ==
            v.kind = "text" /\ v.chars # <<>> /\ parsed.ok
        Pick(ra, ra_int, ms, ms_int) ==
            IF Whole(ra, ra_int) THEN 1000 * Max(0, ra_int.v)
            ELSE IF ra.kind = "httpdate" THEN Max(0, ra.date - now)
            ELSE IF Whole(ms, ms_int) THEN Max(0, ms_int.v)
            ELSE NoDelay
        Both(ra, ms) ==
            Pick(ra, PyIntOfText(ra.chars), ms, PyIntOfText(ms.chars))
    IN  Both(HeaderNamed(headers, "retry-after"),
             HeaderNamed(headers, "x-ms-retry-after-ms"))

\* C33: rate-limit hint extraction.  The delay read from the headers is the
\* Retry-After in whole seconds; else the time left until the HTTP date
\* that Retry-After names; else the milliseconds of x-ms-retry-after-ms;
\* and none when none of them is usable, in which case the pause is the
\* exponential fallback.  The headers are found under names in any case,
\* and the delay is never negative.
C33_HintExtraction ==
    h_out.done =>
        /\ h_out.delay = ClaimedHint(h_in.headers, h_in.now)
        /\ h_out.delay = NoDelay \/ h_out.delay >= 0
        /\ h_out.pause = IF h_out.delay # NoDelay THEN h_out.delay
                         ELSE 1000 * THROTTLE_BACKOFF_INITIAL

\* C33 witness: a Retry-After under a lower-case name that is an HTTP date
\* 1 s ahead was read as a delay of 1 s, although the response carries
\* x-ms-retry-after-ms as well
C33_Witness ==
    /\ h_out.done
    /\ h_in.now = 2000
    /\ h_in.headers = <<Hdr("retry-after", HttpDate(3000)),
                        Hdr("X-Ms-Retry-After-Ms", Text(<<"1", "5", "0", "0">>))>>
    /\ h_out.delay = 1000

(***************************************************************************)
(* The update cycle together with the "Throttled until" lines it logs      *)
(***************************************************************************)
\* throttle responses that ask for a pause of 2 s
LogHeaders == {<<Hdr("Retry-After", Text(<<"2">>))>>}

NextThrottleLog ==
    \/ \E c \in Callers : SkipCycleLogs(c)
    \/ \E c \in Callers : BeginFetch(c)
    \/ \E c \in Callers, h \in LogHeaders : RespondThrottle(c, h)
    \/ \E c \in Callers, p \in CeilingPayloads : RespondSuccess(c, p)
    \/ \E d \in ClockSteps : Tick(d)

SpecThrottleLog == Init /\ [][NextThrottleLog]_vars

\* C34: throttle logging.  Over any sequence of cycles no value of
\* next_allowed_at is named by more than one "Throttled until" line:
\* skipped cycles under the same next_allowed_at log once, and a further
\* line is logged only for a new next_allowed_at.
C34_ThrottleLoggedOncePerValue ==
    \A i, j \in 1..Len(log_lines) : log_lines[i] = log_lines[j] => i = j

\* C37: throttle-state invariant.  In every state of the coordinator the
\* count of consecutive throttle responses is not negative and is 0 exactly
\* when next_allowed_at is none; a throttle response raises it by exactly
\* 1, a payload resets it to 0, and nothing else changes it (the count
\* stands where the last finished cycle left it).
C37_ThrottleStateInvariant ==
    /\ throttle_count >= 0
    /\ throttle_count = 0 <=> next_allowed_at = NoTime
    /\ last.kind = "throttle" => throttle_count = last.count0 + 1
    /\ last.kind = "payload" => throttle_count = 0
    /\ last.kind \in {"none", "skip"} \cup FailureKinds
           => throttle_count = last.count0

\* C37 witness: a second throttle response in a row has raised the count
\* from 1 to 2 while next_allowed_at is set
C37_Witness ==
    /\ last.kind = "throttle"
    /\ last.count0 = 1
    /\ throttle_count = 2
    /\ next_allowed_at # NoTime

(***************************************************************************)
(* A harness for the identity and the position of a record: a coordinator  *)
(* is configured, one record arrives and _normalize_device is applied      *)
(***************************************************************************)
\* what the option identity_field can name
IdentityFields == {NoField, "name", "rego"}

\* records with and without unique_id, name, rego, a telemetry point and
\* coordinates of their own
ShapedRecords ==
    { [BlankRaw EXCEPT !.unique_id = u, !.name = n, !.rego = r,
                       !.aaData = a, !.p_lat = pla, !.p_lng = pln,
                       !.lat = la, !.lon = lo] :
        u \in {PyNone, PyStr(IdA), PyStr(<<" ">>)},
        n \in {PyNone, PyStr(<<"v", "a", "n">>)},
        r \in {PyNone, PyStr(<<"a">>)},
        a \in {"missing", "point"},
        pla \in {PyNone, PyFloat(15)},
        pln \in {PyNone, PyStr(<<"2", ".", "5">>)},
        la \in {PyNone, PyFloat(35)},
        lo \in {PyNone, PyStr(<<"4", ".", "5">>)} }

\* __init__ (line 57) keeps the configured field; a record arrives
ShapeChoose(field, raw, prev) ==
    /\ ~n_out.done
    /\ n_raw = BlankRaw
    /\ raw # BlankRaw
    /\ identity_field' = field
    /\ n_raw' = raw
    /\ n_prev' = prev
    /\ UNCHANGED <<coordVars, textVars, clientVars, redactVars, entityVars,
                   hintVars, logVars, serviceVars, vehicleVars, n_out>>

NextShape ==
    \/ \E f \in IdentityFields, r \in ShapedRecords, p \in NormPrevs :
           ShapeChoose(f, r, p)
    \/ NormApply

SpecShape == Init /\ [][NextShape]_vars

\* the text of a field of the record, stripped; empty when it is absent
IdText(raw, field) == Strip(PyStrOf(PyOr(raw[field], PyStr(<<>>))))

\* C35: identifier derivation order.  The id of a record is the configured
\* identity field when one is set and the record has it, else the first
\* non-empty id-like field (unique_id), else a hash of its content: every
\* record gets an id, the same whenever the record is the same.
C35_IdentifierDerivation ==
    n_out.done =>
        /\ n_out.res.ok
        /\ n_out.res.id # <<>>
        /\ IF identity_field # NoField /\ IdText(n_raw, identity_field) # <<>>
           THEN n_out.res.id = IdText(n_raw, identity_field)
           ELSE IdText(n_raw, "unique_id") # <<>>
                    => n_out.res.id = IdText(n_raw, "unique_id")
        /\ n_out.res.id = _normalize_device(n_raw, n_prev, EmptyZoneMap).id

\* C36: coordinate extraction.  The position is taken from the first
\* telemetry point when the record has one and from the latitude and
\* longitude of the record itself otherwise; a record with coordinates of
\* its own and no point still yields a position.
C36_CoordinateExtraction ==
    (n_out.done /\ n_out.res.ok /\ ~n_out.res.raised) =>
        /\ (HasPoint(n_raw) /\ CanFloat(n_raw.p_lat))
               => n_out.res.entry.lat = _as_float(n_raw.p_lat, PyNone)
        /\ (HasPoint(n_raw) /\ CanFloat(n_raw.p_lng))
               => n_out.res.entry.lon = _as_float(n_raw.p_lng, PyNone)
        /\ (~HasPoint(n_raw) /\ CanFloat(n_raw.lat))
               => n_out.res.entry.lat = _as_float(n_raw.lat, PyNone)
        /\ (~HasPoint(n_raw) /\ CanFloat(n_raw.lon))
               => n_out.res.entry.lon = _as_float(n_raw.lon, PyNone)

\* C39: a failed zones refresh does not fail the cycle.  When the zones
\* call of a cycle ends in an error, whatever the error, the cycle still
\* ends with a published snapshot: the readings of its payload, their zone
\* names resolved against the zone cache as it was, which stays as it was;
\* next_allowed_at, the throttle count and the logged time do not change.
C39_ZonesFailureKeepsCycle ==
    [][\A c \in Callers :
          (pc[c] = "zones" /\ pc'[c] = "idle" /\ last'.zones.answer.raised) =>
              /\ last'.kind = "payload"
              /\ ~last'.raised
              /\ zone_map' = zone_map
              /\ next_allowed_at' = next_allowed_at
              /\ throttle_count' = throttle_count
              /\ throttle_logged_until' = throttle_logged_until
              /\ ~data'.none
              /\ DOMAIN data'.map =
                     DOMAIN NormalizeAll(_extract_devices(held[c].payload),
                                         held[c].previous, zone_map,
                                         EmptyMap).map
              /\ \A id \in DOMAIN data'.map :
                    data'.map[id] =
                        _coalesce_device(held[c].previous, id,
                            NormalizedEntry(data'.map[id].raw,
                                            held[c].previous, id, zone_map))
      ]_vars

\* C39 witness: the zones call of a cycle failed while the cache knew the
\* zone Z1, and the cycle published vehicle A in the zone of that name
C39_Witness ==
    /\ last.kind = "payload"
    /\ ~last.raised
    /\ last.zones.called
    /\ last.zones.answer.raised
    /\ Z1 \in DOMAIN zone_map
    /\ IdA \in DOMAIN data.map
    /\ data.map[IdA].raw = RawZonedA
    /\ data.map[IdA].zone_names[1] = zone_map[Z1]

(***************************************************************************)
(* The update cycle of a fleet whose roster changes from payload to payload *)
(***************************************************************************)
\* an item of the payload that is not a dict
RawNotDict == [BlankRaw EXCEPT !.dict = FALSE, !.unique_id = PyStr(IdC)]

\* payloads with vehicles A and C, with A alone, with A and an item that is
\* no record, with records that have no usable id, with no records, and a
\* body that is not a dict
RosterPayloads ==
    { Payload("wrapped", <<RawFullA, RawBlankZoneC>>),
      Payload("direct", <<RawBareA>>),
      Payload("direct", <<RawNotDict, RawZeroA>>),
      Payload("wrapped", <<RawNoId, RawBlankId, RawEmptyId>>),
      Payload("wrapped", <<>>),
      Payload("list", <<>>) }

NextRoster ==
    \/ \E c \in Callers : BeginFetch(c)
    \/ \E c \in Callers, k \in FleetFailureKinds : RespondFailure(c, k)
    \/ \E c \in Callers, p \in RosterPayloads : RespondSuccess(c, p)

SpecRoster == Init /\ [][NextRoster]_vars

\* the trimmed unique_id of an item, empty when it has none
TrimmedId(r) ==
    IF r.unique_id.t = "none" THEN <<>> ELSE Strip(PyStrOf(r.unique_id))

\* the ids of the device records of a payload
RosterOf(p) ==
    IF p.shape = "list" THEN {}
    ELSE {TrimmedId(p.items[i]) :
             i \in {j \in 1..Len(p.items) : p.items[j].dict}} \ {<<>>}

\* C38: the snapshot follows the roster of the latest payload.  After a
\* cycle that succeeds, the keys of the snapshot are exactly the trimmed,
\* non-empty unique_id values of the records of its payload: a vehicle the
\* payload leaves out is gone, and a payload without records publishes an
\* empty snapshot.
C38_SnapshotKeysFollowPayload ==
    [][\A c \in Callers, p \in RosterPayloads :
          (RespondSuccess(c, p) /\ ~last'.raised) =>
              /\ ~data'.none
              /\ DOMAIN data'.map = RosterOf(p)
      ]_vars

\* C38 witness: after a snapshot that held the position of vehicle A, a
\* cycle has published an empty snapshot
C38_Witness ==
    /\ last.kind = "payload"
    /\ ~last.raised
    /\ ~data.none
    /\ DOMAIN data.map = {}
    /\ <<IdA, "lat">> \in known

(***************************************************************************)
(* The add-on: TrackerService, started by the startup handler and stopped  *)
(* by the shutdown handler (main.py 105-112)                               *)
(***************************************************************************)
\* no more than MaxCalls calls of start() and of stop(), and no more than
\* MaxPolls calls of poll_once, are followed
MaxCalls == 3

MaxPolls == 3

ServiceFrame ==
    UNCHANGED <<coordVars, normVars, textVars, clientVars, redactVars,
                entityVars, hintVars, logVars, vehicleVars, configVars>>

\* a variant of start() without the test of _task
ServiceStartAlways ==
    /\ svc.starts < MaxCalls
    /\ svc' = [svc EXCEPT !.starts = @ + 1, !.again = @ \/ svc.stops > 0,
                          !.connected = TRUE, !.task = "created",
                          !.tasks = @ + 1]
    /\ ServiceFrame

\* lines 47-56: start() returns at once when _task is set; otherwise it
\* connects the client (connect never suspends) and creates the task
ServiceStart ==
    /\ svc.starts < MaxCalls
    /\ svc' = IF svc.task # "none"
              THEN [svc EXCEPT !.starts = @ + 1, !.again = @ \/ svc.stops > 0]
              ELSE [svc EXCEPT !.starts = @ + 1, !.again = @ \/ svc.stops > 0,
                               !.connected = TRUE, !.task = "created",
                               !.tasks = @ + 1]
    /\ ServiceFrame

\* lines 96-98, 65-71: the task runs, or wakes from its sleep, and begins
\* poll_once; fetch_position connects a client that is not connected
LoopPolls ==
    /\ svc.task \in {"created", "sleeping"}
    /\ ~svc.must_cancel
    /\ svc.polls < MaxPolls
    /\ svc' = [svc EXCEPT !.task = "polling", !.polls = @ + 1,
                          !.connected = TRUE, !.late = @ \/ svc.stops > 0]
    /\ ServiceFrame

\* lines 71-72, 99: poll_once returns and the loop sleeps
LoopSleeps ==
    /\ svc.task = "polling"
    /\ ~svc.must_cancel
    /\ svc' = [svc EXCEPT !.task = "sleeping"]
    /\ ServiceFrame

\* lines 58-62: stop() cancels the task and awaits it.  Cancelling a task
\* that is done changes nothing.  (The shutdown handler runs after the
\* startup handler, so _task is set.)
ServiceStopBegins ==
    /\ ~svc.stopping
    /\ svc.task # "none"
    /\ svc.stops < MaxCalls
    /\ svc' = [svc EXCEPT !.stopping = TRUE,
                          !.must_cancel = svc.task # "cancelled"]
    /\ ServiceFrame

\* CancelledError is raised in the task where it waits (or before it first
\* runs); _poll_loop does not catch it, so the task ends cancelled
LoopCancelled ==
    /\ svc.must_cancel
    /\ svc.task \in {"created", "polling", "sleeping"}
    /\ svc' = [svc EXCEPT !.task = "cancelled", !.must_cancel = FALSE,
                          !.cancelled_at = svc.task]
    /\ ServiceFrame

\* lines 61-63: the awaited task is done, its CancelledError is suppressed,
\* and the client is disconnected
ServiceStopEnds ==
    /\ svc.stopping
    /\ svc.task = "cancelled"
    /\ svc' = [svc EXCEPT !.stopping = FALSE, !.connected = FALSE,
                          !.stops = @ + 1]
    /\ ServiceFrame

NextService ==
    \/ ServiceStart
    \/ LoopPolls
    \/ LoopSleeps
    \/ ServiceStopBegins
    \/ LoopCancelled
    \/ ServiceStopEnds

SpecService == Init /\ [][NextService]_vars

\* C31: graceful shutdown of the poll loop.  However often start() is
\* called, at most one poll-loop task is created; while stop() awaits the
\* task, the task is cancelled or about to be, wherever it stood; and once
\* a stop() has completed the task is done for good: no poll_once begins
\* and no task runs or is created again.
C31_GracefulShutdown ==
    /\ svc.tasks <= 1
    /\ svc.stopping => (svc.must_cancel \/ svc.task = "cancelled")
    /\ svc.must_cancel => svc.task \in {"created", "polling", "sleeping"}
    /\ svc.stops > 0 =>
          /\ svc.task = "cancelled"
          /\ ~svc.must_cancel
          /\ ~svc.late

\* C31 witness: the loop was cancelled while it polled, stop() completed,
\* and start() was called again after that
C31_Witness ==
    /\ svc.cancelled_at = "polling"
    /\ svc.stops > 0
    /\ svc.again
    /\ ~svc.stopping

(***************************************************************************)
(* The add-on: the VehicleState of one vehicle, fed by _poll_vehicle       *)
(***************************************************************************)
\* the clock of the add-on stops at MaxMinutes, and no more than MaxHistory
\* positions are appended to a history
MaxMinutes == 4

MaxHistory == 3

\* track_history_minutes as passed to add_position
Retentions == {0, 2}

\* the positions a poll returns: recorded at some minute by a naive
\* datetime (an epoch number, or the fallback utcnow()), or by an aware one
\* (an ISO text that ends in Z)
Positions ==
    {Position(at, FALSE) : at \in {0, 1, 3, 4}} \cup {Position(3, TRUE)}

\* state.py 30-36: _trim_history.  `recorded_at < cutoff` raises TypeError
\* when recorded_at is aware, cutoff being naive.
RECURSIVE PopLeft(_, _)
PopLeft(history, cutoff) ==
    IF history = <<>> THEN [raised |-> FALSE, history |-> history]
    ELSE IF Head(history).aware THEN [raised |-> TRUE, history |-> history]
    ELSE IF Head(history).recorded_at < cutoff
         THEN PopLeft(Tail(history), cutoff)
    ELSE [raised |-> FALSE, history |-> history]

_trim_history(history, retention_minutes, utcnow) ==
    IF retention_minutes <= 0 THEN [raised |-> FALSE, history |-> <<>>]
    ELSE PopLeft(history, utcnow - retention_minutes)

VehicleFrame ==
    UNCHANGED <<coordVars, normVars, textVars, clientVars, redactVars,
                entityVars, hintVars, logVars, serviceVars, configVars>>

\* main.py 75-85, state.py 19-28: the poll returns a position and
\* add_position takes it; when the trimming raises, add_error records that
PollPosition(position, retention_minutes) ==
    /\ Len(veh.history) < MaxHistory
    /\ \E t \in {_trim_history(Append(veh.history, position),
                               retention_minutes, veh.utcnow)} :
          veh' = [veh EXCEPT !.last_position = position,
                             !.updated_at = veh.utcnow,
                             !.last_error = t.raised,
                             !.history = t.history,
                             !.added = position,
                             !.retention = retention_minutes,
                             !.added_at = veh.utcnow,
                             !.raised = t.raised,
                             !.flip_position = ~@,
                             !.flip_error = IF t.raised THEN ~@ ELSE @]
    /\ VehicleFrame

\* main.py 82-85, state.py 26-28: the poll fails and add_error records it
PollError ==
    /\ veh' = [veh EXCEPT !.last_error = TRUE, !.updated_at = veh.utcnow,
                          !.flip_error = ~@]
    /\ VehicleFrame

\* a minute passes
Minute ==
    /\ veh.utcnow < MaxMinutes
    /\ veh' = [veh EXCEPT !.utcnow = @ + 1]
    /\ VehicleFrame

NextVehicle ==
    \/ \E p \in Positions, r \in Retentions : PollPosition(p, r)
    \/ PollError
    \/ Minute

SpecVehicle == Init /\ [][NextVehicle]_vars

\* C40: history retention.  After a call of add_position with retention
\* R > 0 the history holds no position recorded more than R minutes before
\* that call, in whatever order the positions arrived; with R <= 0 it is
\* empty; last_position is the position added last; and add_error changes
\* neither last_position nor the history.
C40_HistoryRetention ==
    [][ /\ (veh'.flip_position # veh.flip_position /\ veh'.retention > 0) =>
              \A i \in 1..Len(veh'.history) :
                  veh'.history[i].recorded_at >= veh'.added_at - veh'.retention
        /\ (veh'.flip_position # veh.flip_position /\ veh'.retention <= 0) =>
              veh'.history = <<>>
        /\ veh'.last_position = veh'.added
        /\ (veh'.flip_error # veh.flip_error
              /\ veh'.flip_position = veh.flip_position) =>
              (veh'.last_position = veh.last_position
                 /\ veh'.history = veh.history)
      ]_vars

====
